---------------------------- MODULE Spec2Model ----------------------------
(***************************************************************************)
(* Verification model of the cash-flow tracker (simple-expense-log).       *)
(*                                                                         *)
(* The record store of ExpenseTracker.tsx (savings, targets, expenses,     *)
(* incomes, fixed expenses), the display currency of use-currency.tsx,     *)
(* the time navigator, and the derived views (monthly summary, trend       *)
(* chart) are modelled as one state machine.  JavaScript numbers are       *)
(* modelled as exact rationals [n, d] in lowest terms; calendar-day        *)
(* strings "YYYY-MM-DD" are modelled as the integer YYYYMMDD, whose        *)
(* numeric order is the lexicographic order of the strings; Date objects   *)
(* are modelled as hours since 2026-01-01T00:00Z.                          *)
(***************************************************************************)
EXTENDS Integers, Sequences, FiniteSets, TLC

VARIABLES
    savings,        \* Saving[]            (ExpenseTracker state)
    targets,        \* FinancialTarget[]   (ExpenseTracker state)
    currency,       \* display currency    (CurrencyProvider state)
    now,            \* wall clock, hours since 2026-01-01T00:00Z
    expenses,       \* Expense[]
    incomes,        \* Income[]
    fixedExpenses,  \* FixedExpense[]
    showPredictions,\* MonthlySummary toggle
    selectedPeriod, \* TimeNavigator selection (NoPeriod = null)
    tzOffset,       \* local time zone, hours east of UTC
    goals           \* Goal[]              (ExpenseTracker state)

vars == <<savings, targets, currency, now, expenses, incomes,
          fixedExpenses, showPredictions, selectedPeriod, tzOffset, goals>>

(***************************************************************************)
(* Bounds of the model.                                                    *)
(***************************************************************************)
MaxAmount == 1
MaxSavings == 2
MaxTargets == 2
MaxDays == 1

(***************************************************************************)
(* JavaScript numbers as exact rationals.                                  *)
(***************************************************************************)
\* a value that may be undefined: <<>> is undefined, <<v>> is the value v
Undefined == <<>>
Some(v) == <<v>>

Abs(x) == IF x < 0 THEN -x ELSE x

RECURSIVE GCD(_, _)
GCD(a, b) == IF b = 0 THEN a ELSE GCD(b, a % b)

Rat(n, d) ==
    LET g == GCD(Abs(n), d)
    IN  [n |-> n \div g, d |-> d \div g]

Num(x) == Rat(x, 1)

RMul(a, b) ==
    LET g1 == GCD(Abs(a.n), b.d)
        g2 == GCD(Abs(b.n), a.d)
    IN  Rat((a.n \div g1) * (b.n \div g2), (a.d \div g2) * (b.d \div g1))

RAdd(a, b) ==
    LET g == GCD(a.d, b.d)
    IN  Rat(a.n * (b.d \div g) + b.n * (a.d \div g), (a.d \div g) * b.d)

RNeg(a) == [n |-> -a.n, d |-> a.d]

RSub(a, b) == RAdd(a, RNeg(b))

RDivInt(a, k) == RMul(a, Rat(1, k))

RPos(a) == a.n > 0

\* Math.round: the nearest integer, halves rounded up
MathRound(a) == (2 * a.n + a.d) \div (2 * a.d)

(***************************************************************************)
(* use-currency.tsx                                                        *)
(***************************************************************************)
Currencies == {"NTD", "USD", "CAD"}

EXCHANGE_RATES ==
    [NTD |-> Rat(1, 1), USD |-> Rat(31, 1000), CAD |-> Rat(43, 1000)]

TO_NTD_RATES ==
    [NTD |-> Rat(1, 1), USD |-> Rat(3226, 100), CAD |-> Rat(2326, 100)]

convertToNTD(amount, fromCurrency) == RMul(amount, TO_NTD_RATES[fromCurrency])

convertFromNTD(amountInNTD, toCurrency) ==
    RMul(amountInNTD, EXCHANGE_RATES[toCurrency])

(***************************************************************************)
(* Calendar.  Date strings are YYYYMMDD integers; DayNumber is the number  *)
(* of days from 2026-01-01, i.e. Date.getTime() of the UTC midnight of     *)
(* the date divided by one day.                                            *)
(***************************************************************************)
YearOf(date) == date \div 10000
MonthOf(date) == (date \div 100) % 100
DayOf(date) == date % 100
MkDate(y, m, d) == y * 10000 + m * 100 + d

\* the instant the model's clock counts from: 2026-01-01T00:00Z
EpochDate == MkDate(2026, 1, 1)
BaseYear == YearOf(EpochDate)

IsLeap(y) == (y % 4 = 0 /\ y % 100 # 0) \/ y % 400 = 0

DaysInMonth(y, m) ==
    IF m = 2 THEN (IF IsLeap(y) THEN 29 ELSE 28)
    ELSE IF m \in {4, 6, 9, 11} THEN 30 ELSE 31

DaysInYear(y) == IF IsLeap(y) THEN 366 ELSE 365

RECURSIVE DaysBeforeMonth(_, _)
DaysBeforeMonth(y, m) ==
    IF m = 1 THEN 0 ELSE DaysBeforeMonth(y, m - 1) + DaysInMonth(y, m - 1)

RECURSIVE DaysBeforeYear(_)
DaysBeforeYear(y) ==
    IF y = BaseYear THEN 0
    ELSE IF y > BaseYear THEN DaysBeforeYear(y - 1) + DaysInYear(y - 1)
    ELSE DaysBeforeYear(y + 1) - DaysInYear(y)

DayNumber(date) ==
    DaysBeforeYear(YearOf(date))
      + DaysBeforeMonth(YearOf(date), MonthOf(date)) + DayOf(date) - 1

RECURSIVE DateInYear(_, _, _)
DateInYear(y, m, k) ==
    IF k < DaysInMonth(y, m) THEN MkDate(y, m, k + 1)
    ELSE DateInYear(y, m + 1, k - DaysInMonth(y, m))

RECURSIVE DateOfDayNumber(_, _)
DateOfDayNumber(y, k) ==
    IF k < 0 THEN DateOfDayNumber(y - 1, k + DaysInYear(y - 1))
    ELSE IF k >= DaysInYear(y) THEN DateOfDayNumber(y + 1, k - DaysInYear(y))
    ELSE DateInYear(y, 1, k)

\* new Date(ms).toISOString().split("T")[0]: the UTC calendar day
ISODate(t) == DateOfDayNumber(BaseYear, t \div 24)

\* new Date("YYYY-MM-DD").getTime(): UTC midnight of the day
DateParse(date) == 24 * DayNumber(date)

(***************************************************************************)
(* Array helpers                                                           *)
(***************************************************************************)
\* Array.prototype.findIndex, 1-based; 0 when no element satisfies Test
FindIndex(s, Test(_)) ==
    IF \E i \in 1..Len(s) : Test(s[i])
    THEN CHOOSE i \in 1..Len(s) :
            Test(s[i]) /\ \A j \in 1..(i - 1) : ~Test(s[j])
    ELSE 0

\* Array.prototype.map
MapSeq(s, F(_)) == [i \in 1..Len(s) |-> F(s[i])]

\* one step of a stable descending sort by date: rec goes after every
\* element whose date is not earlier than its own
RECURSIVE InsertByDateDesc(_, _)
InsertByDateDesc(rec, sorted) ==
    IF sorted = <<>> THEN <<rec>>
    ELSE IF DateParse(rec.date) - DateParse(Head(sorted).date) > 0
         THEN <<rec>> \o sorted
         ELSE <<Head(sorted)>> \o InsertByDateDesc(rec, Tail(sorted))

\* arr.sort((a, b) => new Date(b.date).getTime() - new Date(a.date).getTime())
\* (Array.prototype.sort is stable)
RECURSIVE SortByDateDesc(_)
SortByDateDesc(s) ==
    IF s = <<>> THEN <<>>
    ELSE InsertByDateDesc(s[Len(s)], SortByDateDesc(SubSeq(s, 1, Len(s) - 1)))

(***************************************************************************)
(* ExpenseTracker.tsx: target and saving handlers                          *)
(***************************************************************************)
TargetTypes == {"income", "expense", "savings"}
TargetPeriods == {"weekly", "monthly", "quarterly", "yearly"}
SavingTypes == {"balance", "goal"}

SameKey(t, type, period, targetCurrency) ==
    t.type = type /\ t.period = period /\ t.currency = targetCurrency

\* setTargetsUpdater with the lookup of the existing key lost: always appends
setTargetsUpdater_AlwaysAppend(prev, type, amount, period, targetCurrency, t, id) ==
    Append(prev, [id |-> id, type |-> type, amount |-> amount,
                  currency |-> targetCurrency, period |-> period,
                  createdAt |-> t, updatedAt |-> t])

\* the updater passed to setTargets by updateTarget
setTargetsUpdater(prev, type, amount, period, targetCurrency, t, id) ==
    LET Match(x) == SameKey(x, type, period, targetCurrency)
        existingIndex == FindIndex(prev, Match)
    IN  IF existingIndex >= 1
        THEN [prev EXCEPT ![existingIndex] =
                 [@ EXCEPT !.amount = amount, !.updatedAt = t]]
        ELSE Append(prev, [id |-> id, type |-> type, amount |-> amount,
                           currency |-> targetCurrency, period |-> period,
                           createdAt |-> t, updatedAt |-> t])

\* the updater passed to setSavings by the saving-sync branch of updateTarget
setSavingsUpdater(prev, amountInNTD, today, id) ==
    LET IsGoal(s) == s.savingType = "goal"
        goalSavings == SelectSeq(prev, IsGoal)
        sorted == SortByDateDesc(goalSavings)
    IN  IF sorted # <<>>
        THEN LET latestGoal == sorted[1]
                 Upd(s) == IF s.id = latestGoal.id
                           THEN [s EXCEPT !.amount = amountInNTD] ELSE s
             IN  MapSeq(prev, Upd)
        ELSE <<[id |-> id, date |-> today, amount |-> amountInNTD,
                savingType |-> "goal"]>> \o prev

\* crypto.randomUUID(): an id no live record carries.  The code compares
\* ids for equality only, so the least unused number stands for it.
IdsOf(s) == {s[i].id : i \in 1..Len(s)}

RandomUUID(used) == CHOOSE k \in 1..(Cardinality(used) + 1) :
                        k \notin used /\ \A j \in 1..(k - 1) : j \in used

\* updateTarget with the skipSavingSync flag ignored
updateTarget_IgnoreSkip(tgs, svs, type, amount, period, targetCurrency, skipSavingSync, t) ==
    [targets |-> setTargetsUpdater(tgs, type, amount, period, targetCurrency,
                                   t, RandomUUID(IdsOf(tgs))),
     savings |-> IF type = "savings"
                 THEN setSavingsUpdater(svs, convertToNTD(amount, targetCurrency),
                                        ISODate(t), RandomUUID(IdsOf(svs)))
                 ELSE svs,
     tw |-> 1,
     sw |-> IF type = "savings" THEN 1 ELSE 0]

\* updateTarget(type, amount, period, targetCurrency, skipSavingSync):
\* the lists after the call and the number of setTargets / setSavings calls
updateTarget(tgs, svs, type, amount, period, targetCurrency, skipSavingSync, t) ==
    LET sync == type = "savings" /\ ~skipSavingSync
    IN  [targets |-> setTargetsUpdater(tgs, type, amount, period, targetCurrency,
                                       t, RandomUUID(IdsOf(tgs))),
         savings |-> IF sync
                     THEN setSavingsUpdater(svs, convertToNTD(amount, targetCurrency),
                                            ISODate(t), RandomUUID(IdsOf(svs)))
                     ELSE svs,
         tw |-> 1,
         sw |-> IF sync THEN 1 ELSE 0]

getTarget(tgs, type, period, targetCurrency) ==
    LET Match(x) == SameKey(x, type, period, targetCurrency)
        i == FindIndex(tgs, Match)
    IN  IF i = 0 THEN Undefined ELSE Some(tgs[i])

\* { ...sav, ...updates } for the fields of the model
Merge(sav, updates) ==
    [sav EXCEPT !.amount = IF updates.amount # Undefined THEN updates.amount[1] ELSE @,
                !.savingType = IF updates.savingType # Undefined
                               THEN updates.savingType[1] ELSE @]

\* addSaving(saving)
addSaving(tgs, svs, saving, cur, t) ==
    LET newSaving == [id |-> RandomUUID(IdsOf(svs)), date |-> saving.date,
                      amount |-> saving.amount, savingType |-> saving.savingType]
        svs1 == <<newSaving>> \o svs
    IN  IF saving.savingType = "goal"
        THEN LET amountInDisplayCurrency == convertFromNTD(saving.amount, cur)
                 r == updateTarget(tgs, svs1, "savings", amountInDisplayCurrency,
                                   "monthly", cur, TRUE, t)
             IN  [r EXCEPT !.sw = @ + 1]
        ELSE [targets |-> tgs, savings |-> svs1, tw |-> 0, sw |-> 1]

\* deleteSaving(id)
deleteSaving(svs, id) ==
    LET Keep(sav) == sav.id # id
    IN  SelectSeq(svs, Keep)

\* updateSaving(id, updates)
updateSaving(tgs, svs, id, updates, cur, t) ==
    LET IsIt(s) == s.id = id
        k == FindIndex(svs, IsIt)
        existingSaving == IF k = 0 THEN Undefined ELSE Some(svs[k])
        Upd(sav) == IF sav.id = id THEN Merge(sav, updates) ELSE sav
        svs1 == MapSeq(svs, Upd)
        newType == IF updates.savingType # Undefined THEN updates.savingType
                   ELSE IF existingSaving # Undefined
                        THEN Some(existingSaving[1].savingType)
                   ELSE Undefined
        newAmount == IF updates.amount # Undefined THEN updates.amount
                     ELSE IF existingSaving # Undefined
                          THEN Some(existingSaving[1].amount)
                     ELSE Undefined
        wasGoal == existingSaving # Undefined /\ existingSaving[1].savingType = "goal"
        isGoal == newType = Some("goal")
    IN  IF isGoal /\ newAmount # Undefined
             /\ (updates.amount # Undefined \/ (~wasGoal /\ isGoal))
        THEN LET amountInDisplayCurrency == convertFromNTD(newAmount[1], cur)
                 r == updateTarget(tgs, svs1, "savings", amountInDisplayCurrency,
                                   "monthly", cur, TRUE, t)
             IN  [r EXCEPT !.sw = @ + 1]
        ELSE [targets |-> tgs, savings |-> svs1, tw |-> 0, sw |-> 1]

(***************************************************************************)
(* Inputs of the handlers                                                  *)
(***************************************************************************)
\* numbers typed into an amount field (type="number", min="0")
AmountInputs == 0..MaxAmount

\* days of the model's clock; also the days a date field is set to
ModelDays == {DateOfDayNumber(BaseYear, k) : k \in 0..MaxDays}

\* currencies selected in the model (CAD behaves like USD, with other rates)
ModelCurrencies == {"NTD", "USD"}

\* the currency selected in SavingForm: useState<Currency>("NTD")
ModelInputCurrencies == {"NTD"}

\* (type, period) pairs entered in the target dialogs of the model
ModelTargetKeys == {<<"savings", "monthly">>, <<"savings", "weekly">>,
                    <<"income", "monthly">>}

NoPeriod == [type |-> "none"]

SyncUnchanged == UNCHANGED <<expenses, incomes, fixedExpenses, showPredictions,
                             selectedPeriod, tzOffset, goals>>

\* the lists stay within the bounds of the model
WithinBounds(r) == Len(r.savings) <= MaxSavings /\ Len(r.targets) <= MaxTargets

(***************************************************************************)
(* Actions: one per handler                                                *)
(***************************************************************************)
\* SavingForm.handleSubmit -> addSaving
SavingFormSubmit(date, a, inputCurrency, savingType) ==
    LET amountInNTD == convertToNTD(Num(a), inputCurrency)
        r == addSaving(targets, savings,
                       [date |-> date, amount |-> amountInNTD,
                        savingType |-> savingType], currency, now)
    IN  /\ WithinBounds(r)
        /\ savings' = r.savings
        /\ targets' = r.targets
        /\ UNCHANGED <<currency, now>>
        /\ SyncUnchanged

\* SavingList.saveEdit -> updateSaving(id, {amount, note, reviewCount})
SaveEdit(id, a) ==
    LET amountInNTD == convertToNTD(Num(a), currency)
        r == updateSaving(targets, savings, id,
                          [amount |-> Some(amountInNTD), savingType |-> Undefined],
                          currency, now)
    IN  /\ id \in IdsOf(savings)
        /\ WithinBounds(r)
        /\ savings' = r.savings
        /\ targets' = r.targets
        /\ UNCHANGED <<currency, now>>
        /\ SyncUnchanged

\* SavingList review-count field -> updateSaving(id, {reviewCount})
SetReviewCount(id) ==
    LET r == updateSaving(targets, savings, id,
                          [amount |-> Undefined, savingType |-> Undefined],
                          currency, now)
    IN  /\ id \in IdsOf(savings)
        /\ savings' = r.savings
        /\ targets' = r.targets
        /\ UNCHANGED <<currency, now>>
        /\ SyncUnchanged

\* SavingList delete button -> deleteSaving(id)
DeleteSaving(id) ==
    /\ id \in IdsOf(savings)
    /\ savings' = deleteSaving(savings, id)
    /\ UNCHANGED <<targets, currency, now>>
    /\ SyncUnchanged

\* CombinedChart.handleAddTarget -> updateTarget
HandleAddTarget(newTargetType, newTargetPeriod, parsed) ==
    LET amountInNTD == convertToNTD(Num(parsed), currency)
        r == updateTarget(targets, savings, newTargetType, amountInNTD,
                          newTargetPeriod, currency, FALSE, now)
    IN  /\ ~(parsed <= 0)
        /\ WithinBounds(r)
        /\ savings' = r.savings
        /\ targets' = r.targets
        /\ UNCHANGED <<currency, now>>
        /\ SyncUnchanged

\* CombinedChart.openEditDialog + handleConfirmTargetUpdate -> updateTarget;
\* the edit dialog opens only for a target of the current period and currency
HandleConfirmTargetUpdate(type, currentPeriod, parsed) ==
    LET amountInNTD == convertToNTD(Num(parsed), currency)
        r == updateTarget(targets, savings, type, amountInNTD,
                          currentPeriod, currency, FALSE, now)
    IN  /\ getTarget(targets, type, currentPeriod, currency) # Undefined
        /\ ~(parsed <= 0)
        /\ WithinBounds(r)
        /\ savings' = r.savings
        /\ targets' = r.targets
        /\ UNCHANGED <<currency, now>>
        /\ SyncUnchanged

\* currency selector -> setCurrency
SetCurrency(c) ==
    /\ c # currency
    /\ currency' = c
    /\ UNCHANGED <<savings, targets, now>>
    /\ SyncUnchanged

\* a day passes
Tick ==
    /\ now < 24 * MaxDays
    /\ now' = now + 24
    /\ UNCHANGED <<savings, targets, currency>>
    /\ SyncUnchanged

(***************************************************************************)
(* Specification of the goal-target synchronizer                           *)
(***************************************************************************)
InitCommon ==
    /\ savings = <<>>
    /\ targets = <<>>
    /\ now = 0
    /\ expenses = <<>>
    /\ incomes = <<>>
    /\ fixedExpenses = <<>>
    /\ showPredictions = FALSE
    /\ selectedPeriod = NoPeriod
    /\ tzOffset = 0
    /\ goals = <<>>

\* CurrencyProvider: useState<Currency>("NTD")
Init == InitCommon /\ currency = "NTD"

AddSavingStep ==
    \E date \in ModelDays, a \in AmountInputs, ic \in ModelInputCurrencies,
       st \in SavingTypes : SavingFormSubmit(date, a, ic, st)

SaveEditStep == \E id \in 1..MaxSavings, a \in AmountInputs : SaveEdit(id, a)

SetReviewCountStep == \E id \in 1..MaxSavings : SetReviewCount(id)

DeleteSavingStep == \E id \in 1..MaxSavings : DeleteSaving(id)

AddTargetStep ==
    \E k \in ModelTargetKeys, p \in AmountInputs : HandleAddTarget(k[1], k[2], p)

EditTargetStep ==
    \E k \in ModelTargetKeys, p \in AmountInputs :
        HandleConfirmTargetUpdate(k[1], k[2], p)

SetCurrencyStep == \E c \in ModelCurrencies : SetCurrency(c)

Next ==
    \/ AddSavingStep
    \/ SaveEditStep
    \/ SetReviewCountStep
    \/ DeleteSavingStep
    \/ AddTargetStep
    \/ EditTargetStep
    \/ SetCurrencyStep

Spec == Init /\ [][Next]_vars

\* The saving handlers and the edits of the monthly savings target, with the
\* display currency kept at its initial value.

AddMonthlyTargetStep ==
    \E p \in AmountInputs : HandleAddTarget("savings", "monthly", p)

EditMonthlyTargetStep ==
    \E p \in AmountInputs : HandleConfirmTargetUpdate("savings", "monthly", p)

NextFixedCurrency ==
    \/ AddSavingStep
    \/ SaveEditStep
    \/ SetReviewCountStep
    \/ DeleteSavingStep
    \/ AddMonthlyTargetStep
    \/ EditMonthlyTargetStep

SpecFixedCurrency == Init /\ [][NextFixedCurrency]_vars

\* the handlers that reach updateTarget, with the clock running
AddGoalSavingStep ==
    \E date \in ModelDays, a \in AmountInputs, ic \in ModelInputCurrencies :
        SavingFormSubmit(date, a, ic, "goal")

NextClock ==
    \/ AddGoalSavingStep
    \/ SaveEditStep
    \/ AddTargetStep
    \/ EditTargetStep
    \/ SetCurrencyStep
    \/ Tick

SpecClock == Init /\ [][NextClock]_vars

(***************************************************************************)
(* Goal-target synchronizer: properties                                    *)
(***************************************************************************)
IsGoalSaving(s) == s.savingType = "goal"

GoalSavingsOf(svs) == {svs[i] : i \in {j \in 1..Len(svs) : IsGoalSaving(svs[j])}}

\* the goal-type savings that carry the most recent date
LatestGoalsOf(svs) ==
    {g \in GoalSavingsOf(svs) : \A h \in GoalSavingsOf(svs) : h.date <= g.date}

TargetsAt(tgs, type, period, cur) ==
    {tgs[i] : i \in {j \in 1..Len(tgs) : SameKey(tgs[j], type, period, cur)}}

\* C1: with the display currency fixed, whenever a goal-type Saving exists the
\* (savings, monthly, currency) target exists and its amount is the amount of
\* a most-recently-dated goal-type Saving converted into the display currency.
C1_SyncInvariant ==
    GoalSavingsOf(savings) # {} =>
        \E t \in TargetsAt(targets, "savings", "monthly", currency) :
            \E g \in LatestGoalsOf(savings) :
                t.amount = convertFromNTD(g.amount, currency)

\* every target but those of one key is the same, at the same place, in both lists
OtherTargetsSame(old, new, type, period, cur) ==
    /\ Len(new) >= Len(old)
    /\ \A i \in 1..Len(old) :
          SameKey(old[i], type, period, cur) \/ new[i] = old[i]
    /\ \A i \in (Len(old) + 1)..Len(new) : SameKey(new[i], type, period, cur)

\* C2: addSaving of a goal-type Saving of base amount X performs one upsert
\* of the (savings, monthly, currency) target, to fromBase(X, currency), and
\* the only change of the savings list is the new record at its head; a
\* target edit calls setTargets once and setSavings at most once.
C2_NoUpdateCycle ==
    [][/\ \A date \in ModelDays, a \in AmountInputs, ic \in ModelInputCurrencies :
            SavingFormSubmit(date, a, ic, "goal") =>
                LET X == convertToNTD(Num(a), ic)
                    r == addSaving(targets, savings,
                                   [date |-> date, amount |-> X, savingType |-> "goal"],
                                   currency, now)
                IN  /\ r.tw = 1
                    /\ r.sw = 1
                    /\ Len(savings') = Len(savings) + 1
                    /\ Tail(savings') = savings
                    /\ Head(savings').date = date
                    /\ Head(savings').amount = X
                    /\ Head(savings').savingType = "goal"
                    /\ Head(savings').id \notin IdsOf(savings)
                    /\ Cardinality(TargetsAt(targets', "savings", "monthly", currency)) = 1
                    /\ \A t \in TargetsAt(targets', "savings", "monthly", currency) :
                          t.amount = convertFromNTD(X, currency)
                    /\ OtherTargetsSame(targets, targets', "savings", "monthly", currency)
       /\ \A k \in ModelTargetKeys, p \in AmountInputs :
            (HandleAddTarget(k[1], k[2], p) \/ HandleConfirmTargetUpdate(k[1], k[2], p)) =>
                LET r == updateTarget(targets, savings, k[1],
                                      convertToNTD(Num(p), currency), k[2],
                                      currency, FALSE, now)
                IN  /\ r.tw = 1
                    /\ r.sw <= 1
                    /\ Cardinality({i \in 1..Len(savings) : savings'[Len(savings') - Len(savings) + i] # savings[i]})
                          + (Len(savings') - Len(savings)) <= 1
      ]_vars

\* C2 witness: a goal-type Saving entered in USD display heads the list and
\* the monthly savings target carries its amount converted to USD
C2_Witness ==
    /\ currency = "USD"
    /\ Len(savings) = 2
    /\ IsGoalSaving(savings[1])
    /\ RPos(savings[1].amount)
    /\ \E t \in TargetsAt(targets, "savings", "monthly", "USD") :
          t.amount = convertFromNTD(savings[1].amount, "USD")

\* the savings-target edits of amount p, for the period pe
SavingsTargetEdit(pe, p) ==
    HandleAddTarget("savings", pe, p) \/ HandleConfirmTargetUpdate("savings", pe, p)

\* C3: a monthly savings-target edit of amount p (display currency) writes
\* toBase(p, currency) into the most-recently-dated goal-type Saving, or,
\* when there is none, prepends one new goal-type Saving dated today with
\* that amount; every other Saving is unchanged.
C3_TransitionA ==
    [][\A p \in AmountInputs :
          SavingsTargetEdit("monthly", p) =>
              LET amt == convertToNTD(Num(p), currency)
              IN  IF GoalSavingsOf(savings) # {}
                  THEN /\ Len(savings') = Len(savings)
                       /\ \E i \in 1..Len(savings) :
                             /\ savings[i] \in LatestGoalsOf(savings)
                             /\ savings'[i] = [savings[i] EXCEPT !.amount = amt]
                             /\ \A j \in 1..Len(savings) :
                                   j # i => savings'[j] = savings[j]
                  ELSE /\ Len(savings') = Len(savings) + 1
                       /\ Tail(savings') = savings
                       /\ Head(savings').savingType = "goal"
                       /\ Head(savings').date = ISODate(now)
                       /\ Head(savings').amount = amt
                       /\ Head(savings').id \notin IdsOf(savings)
      ]_vars

\* the targets of another period than monthly are the same in both lists
NonMonthlyTargetsOf(tgs) ==
    {tgs[i] : i \in {j \in 1..Len(tgs) : tgs[j].period # "monthly"}}

\* C4: a savings-target edit for another period than monthly leaves the
\* savings list unchanged, and the saving handlers leave every target of
\* another period than monthly unchanged.
C4_OnlyMonthlySynchronized ==
    [][/\ \A p \in AmountInputs :
            SavingsTargetEdit("weekly", p) => savings' = savings
       /\ (AddSavingStep \/ SaveEditStep \/ SetReviewCountStep \/ DeleteSavingStep) =>
            NonMonthlyTargetsOf(targets') = NonMonthlyTargetsOf(targets)
      ]_vars

\* C9: every FinancialTarget has amount > 0.
C9_TargetAmountPositive ==
    \A i \in 1..Len(targets) : RPos(targets[i].amount)

UniqueKeys(tgs) ==
    \A i, j \in 1..Len(tgs) :
        i # j => ~SameKey(tgs[i], tgs[j].type, tgs[j].period, tgs[j].currency)

\* C8: every step keeps at most one target per (type, period, currency);
\* it changes at most one target, or appends one; a target that stays keeps
\* its place, id, key and createdAt; and a target edit of amount p leaves
\* exactly one target of the edited key, with amount toBase(p) and updatedAt
\* the time of the edit.
C8_TargetUniqueness ==
    [][/\ UniqueKeys(targets')
       /\ Len(targets') \in {Len(targets), Len(targets) + 1}
       /\ \A i \in 1..Len(targets) :
             /\ targets'[i].id = targets[i].id
             /\ targets'[i].createdAt = targets[i].createdAt
             /\ SameKey(targets'[i], targets[i].type, targets[i].period,
                        targets[i].currency)
       /\ Cardinality({i \in 1..Len(targets) : targets'[i] # targets[i]})
             + (Len(targets') - Len(targets)) <= 1
       /\ \A k \in ModelTargetKeys, p \in AmountInputs :
             (HandleAddTarget(k[1], k[2], p) \/ HandleConfirmTargetUpdate(k[1], k[2], p)) =>
                 /\ OtherTargetsSame(targets, targets', k[1], k[2], currency)
                 /\ Cardinality(TargetsAt(targets', k[1], k[2], currency)) = 1
                 /\ \A t \in TargetsAt(targets', k[1], k[2], currency) :
                       /\ t.amount = convertToNTD(Num(p), currency)
                       /\ t.updatedAt = now
      ]_vars

\* C8 witness: two targets that differ in the currency only, the first of
\* them updated after its creation
C8_Witness ==
    /\ Len(targets) = 2
    /\ targets[1].type = targets[2].type
    /\ targets[1].period = targets[2].period
    /\ targets[1].currency # targets[2].currency
    /\ targets[1].updatedAt > targets[1].createdAt
    /\ targets[1].id # targets[2].id

(***************************************************************************)
(* TimeNavigator.tsx: the period tree, and ExpenseTracker.isDateInPeriod.  *)
(* A Date is its getTime() in hours from 2026-01-01T00:00Z; tzOffset is    *)
(* the runtime's local time in hours east of UTC (no daylight saving).     *)
(***************************************************************************)
\* new Date(year, monthIndex, day): local midnight; a monthIndex past 11 and
\* a day of 0 roll over as Date does
NewDate(year, monthIndex, day, tz) ==
    LET first == MkDate(year + (monthIndex \div 12), (monthIndex % 12) + 1, 1)
    IN  24 * (DayNumber(first) + day - 1) - tz

\* new Date().getFullYear(): the local year
getFullYear(t, tz) == YearOf(ISODate(t + tz))

\* the local calendar day of a Date
LocalDay(t, tz) == ISODate(t + tz)

QUARTERS == <<<<0, 1, 2>>, <<3, 4, 5>>, <<6, 7, 8>>, <<9, 10, 11>>>>

\* the while loop of getWeeksInMonth, from currentDate on
RECURSIVE WeeksFrom(_, _, _)
WeeksFrom(currentDate, lastDay, weekNum) ==
    IF ~(currentDate <= lastDay) THEN <<>>
    ELSE LET weekStart == currentDate
             plus6 == currentDate + 6 * 24
             weekEnd == IF plus6 > lastDay THEN lastDay ELSE plus6
         IN  <<[week |-> weekNum, startDate |-> weekStart, endDate |-> weekEnd]>>
                 \o WeeksFrom(weekEnd + 24, lastDay, weekNum + 1)

\* getWeeksInMonth with lastDay taken as the first day of the next month
getWeeksInMonth_NextMonthEnd(year, month, tz) ==
    WeeksFrom(NewDate(year, month, 1, tz), NewDate(year, month + 1, 1, tz), 1)

\* getWeeksInMonth
getWeeksInMonth(year, month, tz) ==
    WeeksFrom(NewDate(year, month, 1, tz), NewDate(year, month + 1, 0, tz), 1)

yearPeriod(year, tz) ==
    [type |-> "year", year |-> year, quarter |-> Undefined, month |-> Undefined,
     week |-> Undefined,
     startDate |-> NewDate(year, 0, 1, tz), endDate |-> NewDate(year, 11, 31, tz)]

quarterPeriod(year, qIndex, tz) ==
    [type |-> "quarter", year |-> year, quarter |-> Some(qIndex + 1),
     month |-> Undefined, week |-> Undefined,
     startDate |-> NewDate(year, QUARTERS[qIndex + 1][1], 1, tz),
     endDate |-> NewDate(year, QUARTERS[qIndex + 1][3] + 1, 0, tz)]

monthPeriod(year, qIndex, monthIndex, tz) ==
    [type |-> "month", year |-> year, quarter |-> Some(qIndex + 1),
     month |-> Some(monthIndex + 1), week |-> Undefined,
     startDate |-> NewDate(year, monthIndex, 1, tz),
     endDate |-> NewDate(year, monthIndex + 1, 0, tz)]

weekPeriod(year, qIndex, monthIndex, weekData) ==
    [type |-> "week", year |-> year, quarter |-> Some(qIndex + 1),
     month |-> Some(monthIndex + 1), week |-> Some(weekData.week),
     startDate |-> weekData.startDate, endDate |-> weekData.endDate]

\* every period the navigator tree renders for the year
NavigatorPeriods(year, tz) ==
    LET monthsOf(qIndex) ==
            {QUARTERS[qIndex + 1][k] : k \in 1..3}
        weeksOf(monthIndex) ==
            LET weeks == getWeeksInMonth(year, monthIndex, tz)
            IN  {weeks[k] : k \in 1..Len(weeks)}
    IN  {yearPeriod(year, tz)}
          \cup {quarterPeriod(year, q, tz) : q \in 0..3}
          \cup UNION {{monthPeriod(year, q, m, tz) : m \in monthsOf(q)} : q \in 0..3}
          \cup UNION {UNION {{weekPeriod(year, q, m, w) : w \in weeksOf(m)}
                               : m \in monthsOf(q)} : q \in 0..3}

\* isPeriodSelected comparing the type and the year only
isPeriodSelected_TypeAndYear(period, selected) ==
    IF selected.type = "none" THEN FALSE
    ELSE /\ period.type = selected.type
         /\ period.year = selected.year

isPeriodSelected(period, selected) ==
    IF selected.type = "none" THEN FALSE
    ELSE /\ period.type = selected.type
         /\ period.year = selected.year
         /\ period.quarter = selected.quarter
         /\ period.month = selected.month
         /\ period.week = selected.week

\* ExpenseTracker.isDateInPeriod; the period null is NoPeriod
isDateInPeriod(dateStr, period) ==
    IF period.type = "none" THEN TRUE
    ELSE LET date == DateParse(dateStr)
         IN  date >= period.startDate /\ date <= period.endDate

periodFiltered(list, period) ==
    SelectSeq(list, LAMBDA rec : isDateInPeriod(rec.date, period))

(***************************************************************************)
(* Expense, income and fixed-expense handlers; period selection            *)
(***************************************************************************)
Frequencies == {"weekly", "monthly", "quarterly", "yearly"}

\* the expenses, incomes and savings together
RecordCount == Len(expenses) + Len(incomes) + Len(savings)

\* ExpenseForm.handleSubmit -> addExpense, with the category selected
ExpenseFormSubmitIn(date, a, inputCurrency, category) ==
    LET amountInNTD == convertToNTD(Num(a), inputCurrency)
        newExpense == [id |-> RandomUUID(IdsOf(expenses)), date |-> date,
                       amount |-> amountInNTD, category |-> category,
                       linkedGoalId |-> Undefined, linkedTaskId |-> Undefined]
    IN  /\ expenses' = <<newExpense>> \o expenses
        /\ UNCHANGED <<savings, targets, currency, now, incomes, fixedExpenses,
                       showPredictions, selectedPeriod, tzOffset, goals>>

\* ExpenseForm.handleSubmit with the category left at useState("misc")
ExpenseFormSubmit(date, a, inputCurrency) ==
    ExpenseFormSubmitIn(date, a, inputCurrency, "misc")

\* ExpenseList delete button -> deleteExpense
DeleteExpense(id) ==
    /\ id \in IdsOf(expenses)
    /\ expenses' = SelectSeq(expenses, LAMBDA exp : exp.id # id)
    /\ UNCHANGED <<savings, targets, currency, now, incomes, fixedExpenses,
                   showPredictions, selectedPeriod, tzOffset, goals>>

\* IncomeForm.handleSubmit -> addIncome (the amount is stored as typed)
IncomeFormSubmit(date, a) ==
    LET newIncome == [id |-> RandomUUID(IdsOf(incomes)), date |-> date,
                      amount |-> Num(a)]
    IN  /\ incomes' = <<newIncome>> \o incomes
        /\ UNCHANGED <<savings, targets, currency, now, expenses, fixedExpenses,
                       showPredictions, selectedPeriod, tzOffset, goals>>

\* IncomeList delete button -> deleteIncome
DeleteIncome(id) ==
    /\ id \in IdsOf(incomes)
    /\ incomes' = SelectSeq(incomes, LAMBDA inc : inc.id # id)
    /\ UNCHANGED <<savings, targets, currency, now, expenses, fixedExpenses,
                   showPredictions, selectedPeriod, tzOffset, goals>>

\* FixedExpenseForm.handleSubmit -> addFixedExpense, with the category
\* selected
FixedExpenseFormSubmitIn(parsedAmount, frequency, inputCurrency, category) ==
    LET amountInNTD == convertToNTD(Num(parsedAmount), inputCurrency)
        newExpense == [id |-> RandomUUID(IdsOf(fixedExpenses)),
                       amount |-> amountInNTD, frequency |-> frequency,
                       isActive |-> TRUE, category |-> category]
    IN  /\ ~(parsedAmount <= 0)
        /\ fixedExpenses' = Append(fixedExpenses, newExpense)
        /\ UNCHANGED <<savings, targets, currency, now, expenses, incomes,
                       showPredictions, selectedPeriod, tzOffset, goals>>

\* FixedExpenseForm.handleSubmit with the category left at
\* useState("housing")
FixedExpenseFormSubmit(parsedAmount, frequency, inputCurrency) ==
    FixedExpenseFormSubmitIn(parsedAmount, frequency, inputCurrency, "housing")

\* FixedExpenseList active switch -> updateFixedExpense(id, {isActive: checked})
SetFixedExpenseActive(id, checked) ==
    /\ \E i \in 1..Len(fixedExpenses) :
          fixedExpenses[i].id = id /\ fixedExpenses[i].isActive # checked
    /\ fixedExpenses' =
          MapSeq(fixedExpenses,
                 LAMBDA exp : IF exp.id = id
                              THEN [exp EXCEPT !.isActive = checked] ELSE exp)
    /\ UNCHANGED <<savings, targets, currency, now, expenses, incomes,
                   showPredictions, selectedPeriod, tzOffset, goals>>

\* FixedExpenseList delete button -> deleteFixedExpense
DeleteFixedExpense(id) ==
    /\ id \in IdsOf(fixedExpenses)
    /\ fixedExpenses' = SelectSeq(fixedExpenses, LAMBDA exp : exp.id # id)
    /\ UNCHANGED <<savings, targets, currency, now, expenses, incomes,
                   showPredictions, selectedPeriod, tzOffset, goals>>

\* TimeNavigator.handleSelectPeriod: the value passed to onSelectPeriod, null
\* being NoPeriod
handleSelectPeriod(period, selected) ==
    IF isPeriodSelected(period, selected) THEN NoPeriod ELSE period

\* TimeNavigator.handleSelectPeriod, on a period of the rendered tree
HandleSelectPeriod(period) ==
    /\ selectedPeriod' = handleSelectPeriod(period, selectedPeriod)
    /\ UNCHANGED <<savings, targets, currency, now, expenses, incomes,
                   fixedExpenses, showPredictions, tzOffset, goals>>

\* TimeNavigator "Clear selection", shown while a period is selected
ClearSelection ==
    /\ selectedPeriod.type # "none"
    /\ selectedPeriod' = NoPeriod
    /\ UNCHANGED <<savings, targets, currency, now, expenses, incomes,
                   fixedExpenses, showPredictions, tzOffset, goals>>

(***************************************************************************)
(* Specification of the time filter                                        *)
(***************************************************************************)
\* records kept in the model of the time filter
MaxFiltered == 1

\* local time zones of the runtime: UTC-5, UTC, UTC+8
ModelTzOffsets == {-5, 0, 8}

\* days typed into the date field: around the ends of the year, of a month
\* and of a week
FilterDays ==
    {MkDate(BaseYear - 1, 12, 31), MkDate(BaseYear, 1, 1), MkDate(BaseYear, 1, 7),
     MkDate(BaseYear, 1, 8), MkDate(BaseYear, 1, 31), MkDate(BaseYear, 2, 1),
     MkDate(BaseYear, 12, 31)}

\* the page opens at noon UTC of 2026-01-01 with nothing selected
InitFilter ==
    /\ savings = <<>>
    /\ targets = <<>>
    /\ currency = "NTD"
    /\ now = 12
    /\ expenses = <<>>
    /\ incomes = <<>>
    /\ fixedExpenses = <<>>
    /\ showPredictions = FALSE
    /\ selectedPeriod = NoPeriod
    /\ tzOffset \in ModelTzOffsets
    /\ goals = <<>>

AddFilteredExpenseStep ==
    /\ Len(expenses) < MaxFiltered
    /\ \E date \in FilterDays, a \in AmountInputs, ic \in ModelInputCurrencies :
          ExpenseFormSubmit(date, a, ic)

DeleteExpenseStep == \E id \in IdsOf(expenses) : DeleteExpense(id)

SelectPeriodStep ==
    \E period \in NavigatorPeriods(getFullYear(now, tzOffset), tzOffset) :
        HandleSelectPeriod(period)

NextFilter ==
    \/ AddFilteredExpenseStep
    \/ DeleteExpenseStep
    \/ SelectPeriodStep
    \/ ClearSelection

SpecFilter == InitFilter /\ [][NextFilter]_vars

\* C7: a record is kept by the time filter iff its date lies within the
\* inclusive calendar-day bounds of the selected period, whatever the time
\* zone; with no period selected every record is kept.
C7_TimeFilterContainment ==
    \A i \in 1..Len(expenses) :
        LET d == expenses[i].date
            S == LocalDay(selectedPeriod.startDate, tzOffset)
            E == LocalDay(selectedPeriod.endDate, tzOffset)
        IN  IF selectedPeriod.type = "none"
            THEN isDateInPeriod(d, selectedPeriod)
            ELSE isDateInPeriod(d, selectedPeriod) <=> (S <= d /\ d <= E)

(***************************************************************************)
(* types/fixedExpense.ts and MonthlySummary.tsx.  A month "YYYY-MM" is the *)
(* integer YYYYMM; localeCompare of two months is the order of integers.   *)
(***************************************************************************)
getMonthlyEquivalent(amount, frequency) ==
    CASE frequency = "weekly" -> RMul(amount, Rat(433, 100))
      [] frequency = "monthly" -> amount
      [] frequency = "quarterly" -> RDivInt(amount, 3)
      [] frequency = "yearly" -> RDivInt(amount, 12)
      [] OTHER -> amount

\* values.reduce((a, b) => a + b, 0)
RECURSIVE SumOf(_)
SumOf(values) ==
    IF values = <<>> THEN Num(0)
    ELSE RAdd(SumOf(SubSeq(values, 1, Len(values) - 1)), values[Len(values)])

AmountsOf(list) == MapSeq(list, LAMBDA rec : rec.amount)

\* Array.prototype.sort with a comparator that orders the elements
\* consistently: stable, so equal elements keep their order
StableSort(s, Compare(_, _)) ==
    LET before(j, i) ==
            Compare(s[j], s[i]) < 0 \/ (Compare(s[j], s[i]) = 0 /\ j < i)
        rank(i) == Cardinality({j \in 1..Len(s) : before(j, i)}) + 1
    IN  [k \in 1..Len(s) |-> s[CHOOSE i \in 1..Len(s) : rank(i) = k]]

\* date.substring(0, 7)
MonthOfDate(date) == date \div 100

\* new Date().toISOString().slice(0, 7)
currentMonthAt(t) == MonthOfDate(ISODate(t))

InMonth(list, month) == SelectSeq(list, LAMBDA rec : MonthOfDate(rec.date) = month)

\* the months of the records of list added to a Set, in insertion order
RECURSIVE AddMonths(_, _)
AddMonths(months, list) ==
    IF list = <<>> THEN months
    ELSE LET month == MonthOfDate(Head(list).date)
         IN  AddMonths(IF \E i \in 1..Len(months) : months[i] = month
                       THEN months ELSE Append(months, month),
                       Tail(list))

\* fixedExpensesMonthly without .filter((exp) => exp.isActive)
fixedExpensesMonthlyOf_AllRecords(fixed) ==
    SumOf(MapSeq(fixed,
                 LAMBDA exp : getMonthlyEquivalent(exp.amount, exp.frequency)))

\* fixedExpensesMonthly
fixedExpensesMonthlyOf(fixed) ==
    SumOf(MapSeq(SelectSeq(fixed, LAMBDA exp : exp.isActive),
                 LAMBDA exp : getMonthlyEquivalent(exp.amount, exp.frequency)))

\* sorted[0].amount of a month's savings sorted by date, latest first
LatestAmount(monthSavings) == SortByDateDesc(monthSavings)[1].amount

historicalAverages(exps, incs, savs, currentMonth) ==
    LET pastIncomes == SelectSeq(incs, LAMBDA inc : MonthOfDate(inc.date) < currentMonth)
        pastExpenses == SelectSeq(exps, LAMBDA exp : MonthOfDate(exp.date) < currentMonth)
        incomeValues == MapSeq(AddMonths(<<>>, pastIncomes),
                               LAMBDA m : SumOf(AmountsOf(InMonth(pastIncomes, m))))
        expenseValues == MapSeq(AddMonths(<<>>, pastExpenses),
                                LAMBDA m : SumOf(AmountsOf(InMonth(pastExpenses, m))))
        savingsBalances ==
            StableSort(MapSeq(AddMonths(<<>>, savs),
                              LAMBDA m : [month |-> m,
                                          balance |-> LatestAmount(InMonth(savs, m))]),
                       LAMBDA a, b : a.month - b.month)
        growths == [i \in 1..(Len(savingsBalances) - 1) |->
                       RSub(savingsBalances[i + 1].balance, savingsBalances[i].balance)]
    IN  [avgIncome |-> IF Len(incomeValues) > 0
                       THEN RDivInt(SumOf(incomeValues), Len(incomeValues))
                       ELSE Num(0),
         avgExpenses |-> IF Len(expenseValues) > 0
                         THEN RDivInt(SumOf(expenseValues), Len(expenseValues))
                         ELSE Num(0),
         avgSavingsGrowth |-> IF Len(savingsBalances) >= 2
                              THEN RDivInt(SumOf(growths), Len(growths))
                              ELSE Num(0),
         latestSavings |-> IF Len(savingsBalances) > 0
                           THEN Some(savingsBalances[Len(savingsBalances)].balance)
                           ELSE Undefined]

\* date = new Date(); date.setMonth(date.getMonth() + i);
\* date.toISOString().slice(0, 7): the month is advanced on the local
\* fields, a day past the end of the month rolls over, and the result is
\* read back in UTC
PredictedMonth(t, tz, i) ==
    LET local == t + tz
        localDay == ISODate(local)
        shifted == NewDate(YearOf(localDay), MonthOf(localDay) - 1 + i,
                           DayOf(localDay), tz) + (local % 24)
    IN  MonthOfDate(ISODate(shifted))

\* predictionBucket with the fixed expenses left out of the net flow
predictionBucket_OmitFixed(i, averages, fixedExpensesMonthly, t, tz) ==
    [month |-> PredictedMonth(t, tz, i),
     totalIncome |-> averages.avgIncome,
     totalExpenses |-> averages.avgExpenses,
     fixedExpensesMonthly |-> fixedExpensesMonthly,
     savingsBalance |-> IF averages.latestSavings # Undefined
                        THEN Some(RAdd(averages.latestSavings[1],
                                       RMul(averages.avgSavingsGrowth, Num(i))))
                        ELSE Undefined,
     netFlow |-> RSub(averages.avgIncome, averages.avgExpenses),
     isPrediction |-> TRUE,
     isCurrentMonth |-> FALSE]

\* a bucket of predictionMonths; savingsBalance null is Undefined
predictionBucket(i, averages, fixedExpensesMonthly, t, tz) ==
    [month |-> PredictedMonth(t, tz, i),
     totalIncome |-> averages.avgIncome,
     totalExpenses |-> averages.avgExpenses,
     fixedExpensesMonthly |-> fixedExpensesMonthly,
     savingsBalance |-> IF averages.latestSavings # Undefined
                        THEN Some(RAdd(averages.latestSavings[1],
                                       RMul(averages.avgSavingsGrowth, Num(i))))
                        ELSE Undefined,
     netFlow |-> RSub(RSub(averages.avgIncome, averages.avgExpenses),
                      fixedExpensesMonthly),
     isPrediction |-> TRUE,
     isCurrentMonth |-> FALSE]

predictionMonths(show, averages, fixedExpensesMonthly, t, tz) ==
    IF ~show THEN <<>>
    ELSE [i \in 1..3 |-> predictionBucket(i, averages, fixedExpensesMonthly, t, tz)]

\* the bucket of an actual month, after the aggregation passes
monthBucket(month, exps, incs, savs, fixedExpensesMonthly, currentMonth) ==
    LET totalIncome == SumOf(AmountsOf(InMonth(incs, month)))
        totalExpenses == SumOf(AmountsOf(InMonth(exps, month)))
        monthSavings == InMonth(savs, month)
    IN  [month |-> month,
         totalIncome |-> totalIncome,
         totalExpenses |-> totalExpenses,
         fixedExpensesMonthly |-> fixedExpensesMonthly,
         savingsBalance |-> IF monthSavings = <<>> THEN Undefined
                            ELSE Some(LatestAmount(monthSavings)),
         netFlow |-> RSub(RSub(totalIncome, totalExpenses), fixedExpensesMonthly),
         isPrediction |-> FALSE,
         isCurrentMonth |-> month = currentMonth]

\* the comparator of actualMonths.sort: the current month first, then the
\* months descending
CompareActual(a, b) ==
    IF a.isCurrentMonth /\ ~b.isCurrentMonth THEN -1
    ELSE IF ~a.isCurrentMonth /\ b.isCurrentMonth THEN 1
    ELSE b.month - a.month

monthlyData(exps, incs, savs, fixedExpensesMonthly, currentMonth, predictions) ==
    LET allMonths == AddMonths(AddMonths(AddMonths(<<>>, exps), incs), savs)
        actualMonths ==
            StableSort(MapSeq(allMonths,
                              LAMBDA m : monthBucket(m, exps, incs, savs,
                                                     fixedExpensesMonthly,
                                                     currentMonth)),
                       CompareActual)
        sortedPredictions == StableSort(predictions, LAMBDA a, b : b.month - a.month)
    IN  sortedPredictions \o actualMonths

\* what the MonthlySummary of ExpenseTracker computes in the current state
SummaryExpenses == periodFiltered(expenses, selectedPeriod)
SummaryIncomes == periodFiltered(incomes, selectedPeriod)
SummarySavings == periodFiltered(savings, selectedPeriod)

Summary ==
    LET fixedExpensesMonthly == fixedExpensesMonthlyOf(fixedExpenses)
        currentMonth == currentMonthAt(now)
        averages == historicalAverages(SummaryExpenses, SummaryIncomes,
                                       SummarySavings, currentMonth)
    IN  monthlyData(SummaryExpenses, SummaryIncomes, SummarySavings,
                    fixedExpensesMonthly, currentMonth,
                    predictionMonths(showPredictions, averages,
                                     fixedExpensesMonthly, now, tzOffset))

\* the Predictions switch; MonthlySummary renders nothing without a bucket
SetShowPredictions(checked) ==
    /\ Len(Summary) # 0
    /\ checked # showPredictions
    /\ showPredictions' = checked
    /\ UNCHANGED <<savings, targets, currency, now, expenses, incomes,
                   fixedExpenses, selectedPeriod, tzOffset, goals>>

(***************************************************************************)
(* Specification of the monthly summary                                    *)
(***************************************************************************)
\* expenses, incomes and savings together, and fixed expenses, in the model
MaxRecords == 3
MaxFixed == 1

\* what is typed into the forms: a past, the current and a coming month
SummaryExpenseDays ==
    {MkDate(BaseYear - 1, 12, 20), MkDate(BaseYear, 1, 5), MkDate(BaseYear, 2, 10)}
SummaryIncomeDays == {MkDate(BaseYear - 1, 12, 20), MkDate(BaseYear, 1, 10)}
SummarySavingDays == {MkDate(BaseYear - 1, 12, 20), MkDate(BaseYear, 1, 31)}

SummaryExpenseAmounts == {1000 * a : a \in 1..MaxAmount}
SummaryIncomeAmounts == {5000 * a : a \in 1..MaxAmount}
SummarySavingAmounts == {20000 * a : a \in 1..MaxAmount}
SummaryFixedAmounts == {3000 * a : a \in 1..MaxAmount}

\* the page is open at noon UTC of 2026-01-15 or of 2026-01-31
SummaryClocks ==
    {24 * DayNumber(MkDate(BaseYear, 1, 15)) + 12,
     24 * DayNumber(MkDate(BaseYear, 1, 31)) + 12}

InitSummary ==
    /\ savings = <<>>
    /\ targets = <<>>
    /\ currency = "NTD"
    /\ now \in SummaryClocks
    /\ expenses = <<>>
    /\ incomes = <<>>
    /\ fixedExpenses = <<>>
    /\ showPredictions = FALSE
    /\ selectedPeriod = NoPeriod
    /\ tzOffset = 0
    /\ goals = <<>>

AddExpenseStep ==
    /\ RecordCount < MaxRecords
    /\ \E date \in SummaryExpenseDays, a \in SummaryExpenseAmounts,
          ic \in ModelInputCurrencies : ExpenseFormSubmit(date, a, ic)

AddIncomeStep ==
    /\ RecordCount < MaxRecords
    /\ \E date \in SummaryIncomeDays, a \in SummaryIncomeAmounts :
          IncomeFormSubmit(date, a)

DeleteIncomeStep == \E id \in IdsOf(incomes) : DeleteIncome(id)

AddSummarySavingStep ==
    /\ RecordCount < MaxRecords
    /\ \E date \in SummarySavingDays, a \in SummarySavingAmounts,
          ic \in ModelInputCurrencies, st \in SavingTypes :
          SavingFormSubmit(date, a, ic, st)

AddFixedExpenseStep ==
    /\ Len(fixedExpenses) < MaxFixed
    /\ \E a \in SummaryFixedAmounts, f \in Frequencies, ic \in ModelInputCurrencies :
          FixedExpenseFormSubmit(a, f, ic)

SetFixedExpenseActiveStep ==
    \E id \in IdsOf(fixedExpenses), checked \in BOOLEAN :
        SetFixedExpenseActive(id, checked)

DeleteFixedExpenseStep == \E id \in IdsOf(fixedExpenses) : DeleteFixedExpense(id)

SetShowPredictionsStep == \E checked \in BOOLEAN : SetShowPredictions(checked)

NextSummary ==
    \/ AddExpenseStep
    \/ DeleteExpenseStep
    \/ AddIncomeStep
    \/ DeleteIncomeStep
    \/ AddSummarySavingStep
    \/ DeleteSavingStep
    \/ AddFixedExpenseStep
    \/ SetFixedExpenseActiveStep
    \/ DeleteFixedExpenseStep
    \/ SetShowPredictionsStep

SpecSummary == InitSummary /\ [][NextSummary]_vars

(***************************************************************************)
(* Monthly summary: properties                                             *)
(***************************************************************************)
\* the sum of the amounts of the records of list dated in month
RECURSIVE DirectSum(_, _)
DirectSum(list, month) ==
    IF list = <<>> THEN Num(0)
    ELSE RAdd(IF MonthOfDate(Head(list).date) = month
              THEN Head(list).amount ELSE Num(0),
              DirectSum(Tail(list), month))

RecordMonths ==
    {MonthOfDate(SummaryExpenses[i].date) : i \in 1..Len(SummaryExpenses)}
      \cup {MonthOfDate(SummaryIncomes[i].date) : i \in 1..Len(SummaryIncomes)}
      \cup {MonthOfDate(SummarySavings[i].date) : i \in 1..Len(SummarySavings)}

\* C5: every month of a record appears exactly once in the summary, with
\* totalIncome and totalExpenses the direct sums of the month's incomes and
\* expenses, and fixedExpensesMonthly is the same in every bucket.
C5_AggregationCompleteness ==
    \A out \in {Summary} :
        /\ \A m \in RecordMonths :
              /\ Cardinality({k \in 1..Len(out) : out[k].month = m}) = 1
              /\ \A k \in 1..Len(out) :
                    out[k].month = m =>
                        /\ out[k].totalIncome = DirectSum(SummaryIncomes, m)
                        /\ out[k].totalExpenses = DirectSum(SummaryExpenses, m)
        /\ \A j, k \in 1..Len(out) :
              out[j].fixedExpensesMonthly = out[k].fixedExpensesMonthly

\* one expense of 1000 on 2026-01-05, one income of 5000 on 2026-01-10, one
\* balance of 20000 on 2026-01-31, one active monthly fixed expense of 3000
JanuaryScenario ==
    /\ Len(expenses) = 1
    /\ expenses[1].date = MkDate(2026, 1, 5) /\ expenses[1].amount = Num(1000)
    /\ Len(incomes) = 1
    /\ incomes[1].date = MkDate(2026, 1, 10) /\ incomes[1].amount = Num(5000)
    /\ Len(savings) = 1
    /\ savings[1].date = MkDate(2026, 1, 31) /\ savings[1].amount = Num(20000)
    /\ savings[1].savingType = "balance"
    /\ Len(fixedExpenses) = 1
    /\ fixedExpenses[1].isActive /\ fixedExpenses[1].frequency = "monthly"
    /\ fixedExpenses[1].amount = Num(3000)

JanuaryBuckets(out) ==
    {k \in 1..Len(out) : out[k].month = 202601 /\ ~out[k].isPrediction}

\* C6: every bucket of the summary, actual or predicted, has
\* netFlow = totalIncome - totalExpenses - fixedExpensesMonthly; and in the
\* January 2026 scenario the January bucket has income 5000, expenses 1000,
\* fixed 3000, savings balance 20000 and net flow 1000.
C6_NetFlowIdentity ==
    \A out \in {Summary} :
        /\ \A k \in 1..Len(out) :
              out[k].netFlow =
                  RSub(RSub(out[k].totalIncome, out[k].totalExpenses),
                       out[k].fixedExpensesMonthly)
        /\ JanuaryScenario =>
              /\ JanuaryBuckets(out) # {}
              /\ \A k \in JanuaryBuckets(out) :
                    /\ out[k].totalIncome = Num(5000)
                    /\ out[k].totalExpenses = Num(1000)
                    /\ out[k].fixedExpensesMonthly = Num(3000)
                    /\ out[k].savingsBalance = Some(Num(20000))
                    /\ out[k].netFlow = Num(1000)

\* C6 witness: the January scenario with the predictions shown, so that the
\* summary has actual and predicted buckets with a fixed figure above zero
C6_Witness ==
    /\ JanuaryScenario
    /\ showPredictions
    /\ \A out \in {Summary} :
          /\ \E k \in 1..Len(out) : out[k].isPrediction
          /\ \E k \in 1..Len(out) : ~out[k].isPrediction

(***************************************************************************)
(* CombinedChart.tsx: chartData.  A value that may be null is Undefined or *)
(* Some(v).                                                                *)
(***************************************************************************)
\* parseISO(date).getTime(): local midnight of the day
parseISO(date, tz) == 24 * DayNumber(date) - tz

\* format(addDays(parseISO(date), i), "yyyy-MM-dd")
addDays(date, i) == DateOfDayNumber(BaseYear, DayNumber(date) + i)

\* Math.ceil(x / k) for k > 0
MathCeilDiv(x, k) == -((-x) \div k)

Max(a, b) == IF a >= b THEN a ELSE b

OnDate(list, date) == SelectSeq(list, LAMBDA rec : rec.date = date)

\* Object.keys of a Record filled by list.forEach: the dates, in insertion order
RECURSIVE AddDates(_, _)
AddDates(dates, list) ==
    IF list = <<>> THEN dates
    ELSE AddDates(IF \E i \in 1..Len(dates) : dates[i] = Head(list).date
                  THEN dates ELSE Append(dates, Head(list).date),
                  Tail(list))

\* dailyExpenses[date] || 0, dailyIncomes[date] || 0
DailyAmount(list, date) == SumOf(AmountsOf(OnDate(list, date)))

\* savingsByDate[date]: the last record of the date in list order
SavingsByDate(savs, date) ==
    LET onDate == OnDate(savs, date)
    IN  IF onDate = <<>> THEN Undefined ELSE Some(onDate[Len(onDate)].amount)

\* x || null and x || 0 on a number that may be undefined
OrNull(x) == IF x = Undefined \/ x = Some(Num(0)) THEN Undefined ELSE x
OrZero(x) == IF x = Undefined THEN Num(0) ELSE x[1]

\* the running sum after the first k dates
RECURSIVE Cumulative(_, _, _)
Cumulative(list, dates, k) ==
    IF k = 0 THEN Num(0)
    ELSE RAdd(Cumulative(list, dates, k - 1), DailyAmount(list, dates[k]))

\* lastSavings reset on every date: nothing is carried forward
LastSavings_NoCarry(savs, dates, k) ==
    IF k = 0 THEN Undefined ELSE SavingsByDate(savs, dates[k])

\* lastSavings of the carry-forward loop after the first k dates
RECURSIVE LastSavings(_, _, _)
LastSavings(savs, dates, k) ==
    IF k = 0 THEN Undefined
    ELSE IF SavingsByDate(savs, dates[k]) # Undefined
         THEN SavingsByDate(savs, dates[k])
         ELSE LastSavings(savs, dates, k - 1)

\* avgDaily with the days between the two dates instead of the inclusive span
avgDaily_ExclusiveSpan(list, today, tz) ==
    LET pastDates == SelectSeq(AddDates(<<>>, list), LAMBDA d : d <= today)
        sorted == StableSort(pastDates, LAMBDA a, b : a - b)
        firstDate == parseISO(sorted[1], tz)
        lastDate == parseISO(sorted[Len(sorted)], tz)
        daysDiff == Max(1, MathCeilDiv(lastDate - firstDate, 24))
        total == SumOf(AmountsOf(SelectSeq(list, LAMBDA rec : rec.date <= today)))
    IN  IF Len(pastDates) > 0 THEN RDivInt(total, daysDiff) ELSE Num(0)

\* avgDailyExpense and avgDailyIncome
avgDaily(list, today, tz) ==
    LET pastDates == SelectSeq(AddDates(<<>>, list), LAMBDA d : d <= today)
        sorted == StableSort(pastDates, LAMBDA a, b : a - b)
        firstDate == parseISO(sorted[1], tz)
        lastDate == parseISO(sorted[Len(sorted)], tz)
        daysDiff == Max(1, MathCeilDiv(lastDate - firstDate, 24) + 1)
        total == SumOf(AmountsOf(SelectSeq(list, LAMBDA rec : rec.date <= today)))
    IN  IF Len(pastDates) > 0 THEN RDivInt(total, daysDiff) ELSE Num(0)

avgDailySavingsGrowthOf(savs, tz) ==
    LET savingsDates == StableSort(AddDates(<<>>, savs), LAMBDA a, b : a - b)
        firstDate == savingsDates[1]
        lastDate == savingsDates[Len(savingsDates)]
        daysDiff == Max(1, MathCeilDiv(parseISO(lastDate, tz) - parseISO(firstDate, tz), 24))
        savingsGrowth == RSub(SavingsByDate(savs, lastDate)[1],
                              SavingsByDate(savs, firstDate)[1])
    IN  IF Len(savingsDates) >= 2 THEN RDivInt(savingsGrowth, daysDiff) ELSE Num(0)

EmptyChart ==
    [data |-> <<>>, avgDailyExpense |-> Num(0), avgDailyIncome |-> Num(0),
     avgDailySavingsGrowth |-> Num(0), expenseProjection |-> 0,
     incomeProjection |-> 0, savingsProjection |-> 0, netProjection |-> 0]

chartData(exps, incs, savs, t, tz) ==
    LET sortedDates ==
            StableSort(AddDates(AddDates(AddDates(<<>>, exps), incs), savs),
                       LAMBDA a, b : a - b)
        today == ISODate(t)
        n == Len(sortedDates)
        dated(k) ==
            LET date == sortedDates[k]
                cumulativeExpense == Cumulative(exps, sortedDates, k)
                cumulativeIncome == Cumulative(incs, sortedDates, k)
                isFuture == date > today
                own == OrNull(SavingsByDate(savs, date))
                lastSavings == LastSavings(savs, sortedDates, k)
            IN  [date |-> date, projected |-> FALSE,
                 expenseCumulative |-> IF isFuture THEN Undefined
                                       ELSE Some(cumulativeExpense),
                 futureExpense |-> IF isFuture THEN Some(cumulativeExpense)
                                   ELSE Undefined,
                 incomeCumulative |-> IF isFuture THEN Undefined
                                      ELSE Some(cumulativeIncome),
                 savings |-> IF lastSavings # Undefined /\ own = Undefined
                             THEN lastSavings ELSE own]
        avgDailyExpense == avgDaily(exps, today, tz)
        avgDailyIncome == avgDaily(incs, today, tz)
        avgDailySavingsGrowth == avgDailySavingsGrowthOf(savs, tz)
        lastDate == sortedDates[n]
        lastCumulativeExpense == Cumulative(exps, sortedDates, n)
        lastCumulativeIncome == Cumulative(incs, sortedDates, n)
        lastSavingsValue == OrZero(OrNull(LastSavings(savs, sortedDates, n)))
        projectedExpense(i) ==
            MathRound(RAdd(lastCumulativeExpense, RMul(avgDailyExpense, Num(i))))
        projectedIncome(i) ==
            MathRound(RAdd(lastCumulativeIncome, RMul(avgDailyIncome, Num(i))))
        projectedSavings(i) ==
            MathRound(RAdd(lastSavingsValue, RMul(avgDailySavingsGrowth, Num(i))))
        projection(i) ==
            [date |-> addDays(lastDate, i), projected |-> TRUE,
             projectedExpense |-> projectedExpense(i),
             projectedIncome |-> projectedIncome(i),
             projectedSavings |-> projectedSavings(i)]
    IN  IF Len(exps) = 0 /\ Len(incs) = 0 /\ Len(savs) = 0 THEN EmptyChart
        ELSE [data |-> [k \in 1..n |-> dated(k)] \o [i \in 1..30 |-> projection(i)],
              avgDailyExpense |-> avgDailyExpense,
              avgDailyIncome |-> avgDailyIncome,
              avgDailySavingsGrowth |-> avgDailySavingsGrowth,
              expenseProjection |-> projectedExpense(30),
              incomeProjection |-> projectedIncome(30),
              savingsProjection |-> projectedSavings(30),
              netProjection |-> projectedIncome(30) - projectedExpense(30)]

\* what the CombinedChart of ExpenseTracker computes in the current state
Chart ==
    chartData(periodFiltered(expenses, selectedPeriod),
              periodFiltered(incomes, selectedPeriod),
              periodFiltered(savings, selectedPeriod), now, tzOffset)

(***************************************************************************)
(* Specification of the trend chart                                        *)
(***************************************************************************)
\* amounts typed into the expense and income forms
ChartAmounts == (AmountInputs \ {0}) \cup {100 * a : a \in 1..MaxAmount}

AddChartExpenseStep ==
    /\ RecordCount < MaxRecords
    /\ \E date \in ModelDays, a \in ChartAmounts, ic \in ModelInputCurrencies :
          ExpenseFormSubmit(date, a, ic)

AddChartIncomeStep ==
    /\ RecordCount < MaxRecords
    /\ \E date \in ModelDays, a \in ChartAmounts : IncomeFormSubmit(date, a)

AddChartSavingStep ==
    /\ RecordCount < MaxRecords
    /\ AddSavingStep

NextChart ==
    \/ AddChartExpenseStep
    \/ DeleteExpenseStep
    \/ AddChartIncomeStep
    \/ DeleteIncomeStep
    \/ AddChartSavingStep
    \/ DeleteSavingStep
    \/ Tick

SpecChart == Init /\ [][NextChart]_vars

(***************************************************************************)
(* Trend chart: properties                                                 *)
(***************************************************************************)
\* the sum of the amounts of the records of list dated on or before day
RECURSIVE TotalUpTo(_, _)
TotalUpTo(list, day) ==
    IF list = <<>> THEN Num(0)
    ELSE RAdd(IF Head(list).date <= day THEN Head(list).amount ELSE Num(0),
              TotalUpTo(Tail(list), day))

\* the sum of the amounts of all the records of list
RECURSIVE TotalOf(_)
TotalOf(list) ==
    IF list = <<>> THEN Num(0) ELSE RAdd(Head(list).amount, TotalOf(Tail(list)))

\* the average daily rate of a series: the amounts dated on or before today
\* over the inclusive number of days from the earliest to the latest of them
DailyRate(list, today) ==
    LET past == {list[k].date : k \in {j \in 1..Len(list) : list[j].date <= today}}
        earliest == CHOOSE d \in past : \A e \in past : d <= e
        latest == CHOOSE d \in past : \A e \in past : e <= d
        span == DayNumber(latest) - DayNumber(earliest) + 1
    IN  IF past = {} THEN Num(0)
        ELSE RDivInt(TotalUpTo(list, today), IF span >= 1 THEN span ELSE 1)

\* z is the integer nearest to x, a half going up
IsRounded(z, x) == 2 * x.d * z - x.d <= 2 * x.n /\ 2 * x.n < 2 * x.d * z + x.d

\* the projected points of a chart
ProjectedPoints(chart) == SelectSeq(chart.data, LAMBDA pt : pt.projected)

\* expenses totalling 200 on the two consecutive days ending 2026-01-02
TwoDayScenario ==
    /\ Len(expenses) = 2
    /\ {expenses[1].date, expenses[2].date} = {MkDate(2026, 1, 1), MkDate(2026, 1, 2)}
    /\ RAdd(expenses[1].amount, expenses[2].amount) = Num(200)
    /\ ISODate(now) >= MkDate(2026, 1, 2)

\* C10: the average daily rate of the expenses, and of the incomes, is the
\* sum of the amounts dated on or before today over the inclusive number of
\* days from the earliest to the latest such date (at least 1); the i-th
\* projected point, i = 1..30, is the rounding of L + r * i with L the last
\* cumulative value of the series; and expenses totalling 200 on the two
\* days ending 2026-01-02 give the rate 100 and a first projection of 300.
C10_TrendProjection ==
    \A chart \in {Chart} :
        LET today == ISODate(now)
            rE == DailyRate(expenses, today)
            rI == DailyRate(incomes, today)
            LE == TotalOf(expenses)
            LI == TotalOf(incomes)
            points == ProjectedPoints(chart)
        IN  /\ chart.avgDailyExpense = rE
            /\ chart.avgDailyIncome = rI
            /\ RecordCount > 0 =>
                  /\ Len(points) = 30
                  /\ \A i \in 1..30 :
                        /\ IsRounded(points[i].projectedExpense,
                                     RAdd(LE, RMul(rE, Num(i))))
                        /\ IsRounded(points[i].projectedIncome,
                                     RAdd(LI, RMul(rI, Num(i))))
            /\ TwoDayScenario =>
                  /\ chart.avgDailyExpense = Num(100)
                  /\ points[1].projectedExpense = 300

\* C10 witness: the two-day scenario on 2026-01-02, projected over 30 days
C10_Witness ==
    /\ TwoDayScenario
    /\ \A chart \in {Chart} :
          /\ Len(ProjectedPoints(chart)) = 30
          /\ chart.avgDailyExpense = Num(100)
          /\ ProjectedPoints(chart)[1].projectedExpense = 300

(***************************************************************************)
(* Degenerate inputs                                                       *)
(***************************************************************************)
NoneUpTo(list, day) == \A k \in 1..Len(list) : ~(list[k].date <= day)

\* C11: with empty expense, income and saving lists the chart is an empty
\* series with the four 30-day projections 0 and the monthly summary has no
\* bucket; and a series with no record dated on or before today has rate 0
\* and a 30-day projection equal to its last cumulative value.
C11_DegenerateInputs ==
    \A chart \in {Chart}, out \in {Summary} :
        /\ (expenses = <<>> /\ incomes = <<>> /\ savings = <<>>) =>
              /\ chart.data = <<>>
              /\ chart.incomeProjection = 0 /\ chart.expenseProjection = 0
              /\ chart.savingsProjection = 0 /\ chart.netProjection = 0
              /\ Len(out) = 0
        /\ NoneUpTo(expenses, ISODate(now)) =>
              /\ chart.avgDailyExpense = Num(0)
              /\ IsRounded(chart.expenseProjection, TotalOf(expenses))
        /\ NoneUpTo(incomes, ISODate(now)) =>
              /\ chart.avgDailyIncome = Num(0)
              /\ IsRounded(chart.incomeProjection, TotalOf(incomes))

\* C12: the buckets of the monthly summary are in strictly descending month
\* order, also when records are dated in months after the current month.
C12_MostRecentFirst ==
    \A out \in {Summary} :
        \A k \in 1..(Len(out) - 1) : out[k].month > out[k + 1].month


(***************************************************************************)
(* Goals (ExpenseTracker goal handlers, GoalList).  A Goal is              *)
(* [id, title, deadline, completed, isMagicWand, linkedExpenseId,          *)
(*  category, preTasks, postTasks, postDreams]; a task or dream is         *)
(* [id, cost, deadline, linkedExpenseId].  The empty deadline string and   *)
(* a missing linkedExpenseId are Undefined.                                *)
(***************************************************************************)
\* the goal limit of addGoal and GoalList.canAddGoal
GoalCap == 10

\* goals.filter((g) => !g.completed && g.title)
ActiveGoals(gs) == SelectSeq(gs, LAMBDA g : ~g.completed /\ g.title # "")

\* deadline || new Date().toISOString().split("T")[0]
DeadlineOrToday(deadline, t) ==
    IF deadline # Undefined THEN deadline[1] ELSE ISODate(t)

\* addGoal: the linked expense and the goal are appended, unless GoalCap
\* active goals exist already
addGoal(gs, exps, title, deadline, t) ==
    IF Len(ActiveGoals(gs)) >= GoalCap
    THEN [goals |-> gs, expenses |-> exps]
    ELSE LET goalId == RandomUUID(IdsOf(gs))
             expenseId == RandomUUID(IdsOf(exps))
             linkedExpense == [id |-> expenseId,
                               date |-> DeadlineOrToday(deadline, t),
                               amount |-> Num(0), category |-> "misc",
                               linkedGoalId |-> Some(goalId),
                               linkedTaskId |-> Undefined]
             newGoal == [id |-> goalId, title |-> title, deadline |-> deadline,
                         completed |-> FALSE, isMagicWand |-> FALSE,
                         linkedExpenseId |-> Some(expenseId),
                         category |-> "misc", preTasks |-> <<>>,
                         postTasks |-> <<>>, postDreams |-> <<>>]
         IN  [goals |-> Append(gs, newGoal),
              expenses |-> Append(exps, linkedExpense)]

\* Partial<Omit<Goal, "id">> with no field present; a present field f is
\* Some(value), and a present deadline is Some of the deadline option
NoUpdates ==
    [title |-> Undefined, deadline |-> Undefined, completed |-> Undefined,
     isMagicWand |-> Undefined, category |-> Undefined, preTasks |-> Undefined,
     postTasks |-> Undefined, postDreams |-> Undefined]

\* { ...g, ...updates }
SpreadGoal(g, updates) ==
    [id |-> g.id,
     title |-> IF updates.title # Undefined THEN updates.title[1] ELSE g.title,
     deadline |-> IF updates.deadline # Undefined THEN updates.deadline[1]
                  ELSE g.deadline,
     completed |-> IF updates.completed # Undefined THEN updates.completed[1]
                   ELSE g.completed,
     isMagicWand |-> IF updates.isMagicWand # Undefined
                     THEN updates.isMagicWand[1] ELSE g.isMagicWand,
     linkedExpenseId |-> g.linkedExpenseId,
     category |-> IF updates.category # Undefined THEN updates.category[1]
                  ELSE g.category,
     preTasks |-> IF updates.preTasks # Undefined THEN updates.preTasks[1]
                  ELSE g.preTasks,
     postTasks |-> IF updates.postTasks # Undefined THEN updates.postTasks[1]
                   ELSE g.postTasks,
     postDreams |-> IF updates.postDreams # Undefined THEN updates.postDreams[1]
                    ELSE g.postDreams]

\* setGoals((prev) => prev.map((g) => (g.id === id ? { ...g, ...updates } : g)))
setGoalsUpdater(prev, id, updates) ==
    [k \in 1..Len(prev) |->
        IF prev[k].id = id THEN SpreadGoal(prev[k], updates) ELSE prev[k]]

\* the linkedExpenseId of the old tasks that are missing from the new list
RemovedTaskExpenses(oldTasks, newTasks) ==
    LET gone == SelectSeq(oldTasks, LAMBDA oldTask :
                    /\ \A k \in 1..Len(newTasks) : newTasks[k].id # oldTask.id
                    /\ oldTask.linkedExpenseId # Undefined)
    IN  [k \in 1..Len(gone) |-> gone[k].linkedExpenseId[1]]

\* newTasks.forEach of updateGoal: a task that is new gets a linked expense
\* and its linkedExpenseId is set in place; a task whose cost or deadline
\* changed has its linked expense updated.  acc is
\* [expenses, expensesToAdd, tasks]
RECURSIVE ForEachNewTask(_, _, _, _, _, _)
ForEachNewTask(acc, oldTasks, newTasks, id, category, t) ==
    IF newTasks = <<>> THEN acc
    ELSE LET newTask == Head(newTasks)
             found == SelectSeq(oldTasks, LAMBDA old : old.id = newTask.id)
             expenseId == RandomUUID(IdsOf(acc.expenses)
                                        \cup IdsOf(acc.expensesToAdd))
             step ==
               IF found = <<>>
               THEN [expenses |-> acc.expenses,
                     expensesToAdd |-> Append(acc.expensesToAdd,
                         [id |-> expenseId,
                          date |-> DeadlineOrToday(newTask.deadline, t),
                          amount |-> newTask.cost, category |-> category,
                          linkedGoalId |-> Some(id),
                          linkedTaskId |-> Some(newTask.id)]),
                     tasks |-> Append(acc.tasks,
                         [newTask EXCEPT !.linkedExpenseId = Some(expenseId)])]
               ELSE IF /\ \/ newTask.cost # found[1].cost
                          \/ newTask.deadline # found[1].deadline
                       /\ found[1].linkedExpenseId # Undefined
               THEN [expenses |->
                         [k \in 1..Len(acc.expenses) |->
                            IF acc.expenses[k].id = found[1].linkedExpenseId[1]
                            THEN [acc.expenses[k] EXCEPT
                                    !.amount = newTask.cost,
                                    !.date = IF newTask.deadline # Undefined
                                             THEN newTask.deadline[1] ELSE @]
                            ELSE acc.expenses[k]],
                     expensesToAdd |-> acc.expensesToAdd,
                     tasks |-> Append(acc.tasks, newTask)]
               ELSE [acc EXCEPT !.tasks = Append(@, newTask)]
         IN  ForEachNewTask(step, oldTasks, Tail(newTasks), id, category, t)

\* updateGoal: gs is the goal list of the render the handler closes over,
\* st = [goals, expenses] the state its updaters are applied to
updateGoal(gs, st, id, updates, t) ==
    LET found == SelectSeq(gs, LAMBDA g : g.id = id)
    IN  IF found = <<>> THEN st
        ELSE
        LET goal == found[1]
            \* the linked expense of the goal follows deadline and category
            exps1 == IF goal.linkedExpenseId # Undefined
                     THEN [k \in 1..Len(st.expenses) |->
                             IF st.expenses[k].id = goal.linkedExpenseId[1]
                             THEN [st.expenses[k] EXCEPT
                                     !.date = IF /\ updates.deadline # Undefined
                                                 /\ updates.deadline[1] # Undefined
                                              THEN updates.deadline[1][1] ELSE @,
                                     !.category = IF updates.category # Undefined
                                                  THEN updates.category[1] ELSE @]
                             ELSE st.expenses[k]]
                     ELSE st.expenses
            exps2 == IF updates.category # Undefined
                     THEN [k \in 1..Len(exps1) |->
                             IF exps1[k].linkedGoalId = Some(id)
                             THEN [exps1[k] EXCEPT
                                     !.category = updates.category[1]]
                             ELSE exps1[k]]
                     ELSE exps1
            category == IF updates.category # Undefined
                        THEN updates.category[1] ELSE goal.category
            pre == IF updates.preTasks # Undefined
                   THEN ForEachNewTask([expenses |-> exps2,
                                        expensesToAdd |-> <<>>, tasks |-> <<>>],
                                       goal.preTasks, updates.preTasks[1],
                                       id, category, t)
                   ELSE [expenses |-> exps2, expensesToAdd |-> <<>>,
                         tasks |-> <<>>]
            post == IF updates.postTasks # Undefined
                    THEN ForEachNewTask([pre EXCEPT !.tasks = <<>>],
                                        goal.postTasks, updates.postTasks[1],
                                        id, category, t)
                    ELSE [pre EXCEPT !.tasks = <<>>]
            dreams == IF updates.postDreams # Undefined
                      THEN ForEachNewTask([post EXCEPT !.tasks = <<>>],
                                          goal.postDreams, updates.postDreams[1],
                                          id, category, t)
                      ELSE [post EXCEPT !.tasks = <<>>]
            expensesToDelete ==
                (IF updates.preTasks # Undefined
                 THEN RemovedTaskExpenses(goal.preTasks, updates.preTasks[1])
                 ELSE <<>>)
                \o (IF updates.postTasks # Undefined
                    THEN RemovedTaskExpenses(goal.postTasks, updates.postTasks[1])
                    ELSE <<>>)
                \o (IF updates.postDreams # Undefined
                    THEN RemovedTaskExpenses(goal.postDreams,
                                             updates.postDreams[1])
                    ELSE <<>>)
            \* the task objects of updates carry the linkedExpenseId set above
            linkedUpdates ==
                [updates EXCEPT
                   !.preTasks = IF @ # Undefined THEN Some(pre.tasks) ELSE @,
                   !.postTasks = IF @ # Undefined THEN Some(post.tasks) ELSE @,
                   !.postDreams = IF @ # Undefined THEN Some(dreams.tasks) ELSE @]
        IN  [goals |-> setGoalsUpdater(st.goals, id, linkedUpdates),
             expenses |->
                 SelectSeq(dreams.expenses \o dreams.expensesToAdd,
                           LAMBDA e : \A k \in 1..Len(expensesToDelete) :
                                          expensesToDelete[k] # e.id)]

\* the linkedExpenseId of every task of the list that has one
TaskExpenseIds(tasks) ==
    {tasks[k].linkedExpenseId[1] :
        k \in {j \in 1..Len(tasks) : tasks[j].linkedExpenseId # Undefined}}

\* deleteGoal that removes the linked expense of the goal only
deleteGoal_OwnExpenseOnly(gs, exps, id) ==
    LET found == SelectSeq(gs, LAMBDA g : g.id = id)
        expenseIdsToDelete ==
            IF found # <<>> /\ found[1].linkedExpenseId # Undefined
            THEN {found[1].linkedExpenseId[1]} ELSE {}
    IN  [goals |-> SelectSeq(gs, LAMBDA g : g.id # id),
         expenses |-> SelectSeq(exps, LAMBDA e : e.id \notin expenseIdsToDelete)]

\* deleteGoal: the expenses named by the goal, its tasks and its dreams are
\* removed, then the goal
deleteGoal(gs, exps, id) ==
    LET found == SelectSeq(gs, LAMBDA g : g.id = id)
        expenseIdsToDelete ==
            IF found = <<>> THEN {}
            ELSE (IF found[1].linkedExpenseId # Undefined
                  THEN {found[1].linkedExpenseId[1]} ELSE {})
                 \cup TaskExpenseIds(found[1].preTasks)
                 \cup TaskExpenseIds(found[1].postTasks)
                 \cup TaskExpenseIds(found[1].postDreams)
    IN  [goals |-> SelectSeq(gs, LAMBDA g : g.id # id),
         expenses |-> SelectSeq(exps, LAMBDA e : e.id \notin expenseIdsToDelete)]


\* the variables no goal handler writes
GoalUnchanged ==
    UNCHANGED <<savings, targets, currency, now, incomes, fixedExpenses,
                showPredictions, selectedPeriod, tzOffset>>

\* goals={goals.filter((g) => g.title)}: the rows GoalList renders
TitledGoals(gs) == SelectSeq(gs, LAMBDA g : g.title # "")

\* GoalList.canAddGoal
canAddGoal(gs) ==
    Len(SelectSeq(TitledGoals(gs), LAMBDA g : ~g.completed)) < GoalCap

\* GoalList.handleAddGoal -> addGoal (title is the trimmed input)
HandleAddGoal(title, deadline) ==
    /\ title # "" /\ canAddGoal(goals)
    /\ LET r == addGoal(goals, expenses, title, deadline, now)
       IN  goals' = r.goals /\ expenses' = r.expenses
    /\ GoalUnchanged

\* the Checkbox of a goal row -> updateGoal(id, {completed})
SetGoalCompleted(id, checked) ==
    /\ id \in IdsOf(TitledGoals(goals))
    /\ LET r == updateGoal(goals, [goals |-> goals, expenses |-> expenses], id,
                           [NoUpdates EXCEPT !.completed = Some(checked)], now)
       IN  goals' = r.goals /\ expenses' = r.expenses
    /\ GoalUnchanged

\* GoalList.handleFieldBlur(id, "title") with the edited title typed before
HandleTitleBlur(id, title) ==
    /\ id \in IdsOf(TitledGoals(goals))
    /\ title # ""
    /\ LET r == updateGoal(goals, [goals |-> goals, expenses |-> expenses], id,
                           [NoUpdates EXCEPT !.title = Some(title)], now)
       IN  goals' = r.goals /\ expenses' = r.expenses
    /\ GoalUnchanged

\* GoalList.handleFieldBlur(id, "deadline") with the edited deadline
HandleDeadlineBlur(id, deadline) ==
    /\ id \in IdsOf(TitledGoals(goals))
    /\ LET r == updateGoal(goals, [goals |-> goals, expenses |-> expenses], id,
                           [NoUpdates EXCEPT !.deadline = Some(deadline)], now)
       IN  goals' = r.goals /\ expenses' = r.expenses
    /\ GoalUnchanged

\* allGoals.forEach of handleToggleMagicWand: every updateGoal call closes
\* over the rendered list gs, its updaters run on the state st
RECURSIVE ForEachToggle(_, _, _, _, _)
ForEachToggle(st, gs, rest, id, t) ==
    IF rest = <<>> THEN st
    ELSE LET g == Head(rest)
             next == IF g.id = id
                     THEN updateGoal(gs, st, g.id,
                              [NoUpdates EXCEPT !.isMagicWand = Some(TRUE)], t)
                     ELSE IF g.isMagicWand
                     THEN updateGoal(gs, st, g.id,
                              [NoUpdates EXCEPT !.isMagicWand = Some(FALSE)], t)
                     ELSE st
         IN  ForEachToggle(next, gs, Tail(rest), id, t)

\* handleToggleMagicWand that sets the flag of the goal and leaves the
\* flags of the other goals alone
handleToggleMagicWand_KeepOthers(gs, exps, id, t) ==
    LET found == SelectSeq(TitledGoals(gs), LAMBDA g : g.id = id)
        st == [goals |-> gs, expenses |-> exps]
    IN  IF found = <<>> THEN st
        ELSE updateGoal(gs, st, id,
                 [NoUpdates EXCEPT !.isMagicWand = Some(~found[1].isMagicWand)],
                 t)

\* GoalList.handleToggleMagicWand
handleToggleMagicWand(gs, exps, id, t) ==
    LET found == SelectSeq(TitledGoals(gs), LAMBDA g : g.id = id)
        st == [goals |-> gs, expenses |-> exps]
    IN  IF found = <<>> THEN st
        ELSE IF found[1].isMagicWand
        THEN updateGoal(gs, st, id,
                        [NoUpdates EXCEPT !.isMagicWand = Some(FALSE)], t)
        ELSE ForEachToggle(st, gs, gs, id, t)

\* the magic-wand button of an active goal row
HandleToggleMagicWand(id) ==
    /\ id \in IdsOf(SelectSeq(TitledGoals(goals), LAMBDA g : ~g.completed))
    /\ LET r == handleToggleMagicWand(goals, expenses, id, now)
       IN  goals' = r.goals /\ expenses' = r.expenses
    /\ GoalUnchanged

\* deleteGoal
DeleteGoal(id) ==
    /\ id \in IdsOf(goals)
    /\ LET r == deleteGoal(goals, expenses, id)
       IN  goals' = r.goals /\ expenses' = r.expenses
    /\ GoalUnchanged

\* the state after n goals were added on the empty lists at time t
RECURSIVE StoredGoals(_, _)
StoredGoals(n, t) ==
    IF n = 0 THEN [goals |-> <<>>, expenses |-> <<>>]
    ELSE LET st == StoredGoals(n - 1, t)
         IN  addGoal(st.goals, st.expenses, "a", Undefined, t)


(***************************************************************************)
(* Goal limit: the goals of an earlier session are restored, the user adds *)
(* goals and works on the rows added in this session.                      *)
(***************************************************************************)
PreloadedGoals == 8
MaxNewGoals == 3
ModelGoalTitles == {"a", "b"}

\* the rows the user clicks in
ModelGoalRows == {id \in IdsOf(goals) : id > PreloadedGoals}

InitGoalCap ==
    /\ savings = <<>>
    /\ targets = <<>>
    /\ currency = "NTD"
    /\ now = 0
    /\ incomes = <<>>
    /\ fixedExpenses = <<>>
    /\ showPredictions = FALSE
    /\ selectedPeriod = NoPeriod
    /\ tzOffset = 0
    /\ goals = StoredGoals(PreloadedGoals, 0).goals
    /\ expenses = StoredGoals(PreloadedGoals, 0).expenses

AddGoalStep ==
    /\ Len(goals) < PreloadedGoals + MaxNewGoals
    /\ HandleAddGoal("a", Undefined)

SetGoalCompletedStep ==
    \E id \in ModelGoalRows, checked \in BOOLEAN : SetGoalCompleted(id, checked)

TitleBlurStep ==
    \E id \in ModelGoalRows, title \in ModelGoalTitles : HandleTitleBlur(id, title)

DeleteGoalStep == \E id \in ModelGoalRows : DeleteGoal(id)

NextGoalCap ==
    \/ AddGoalStep
    \/ SetGoalCompletedStep
    \/ TitleBlurStep
    \/ DeleteGoalStep

SpecGoalCap == InitGoalCap /\ [][NextGoalCap]_vars

\* addGoal called when GoalCap goals are active changes neither list
AddGoalAtCapKeepsLists ==
    Len(ActiveGoals(goals)) >= GoalCap =>
        \A title \in ModelGoalTitles :
            addGoal(goals, expenses, title, Undefined, now)
                = [goals |-> goals, expenses |-> expenses]

\* C13: in every state at most GoalCap goals are active (not completed, with
\* a non-empty title), and addGoal called when GoalCap goals are active
\* changes neither the goal list nor the expense list.
C13_GoalCap ==
    /\ Len(ActiveGoals(goals)) <= GoalCap
    /\ AddGoalAtCapKeepsLists


(***************************************************************************)
(* Top-priority flag: the restored goals hold one goal without a title,    *)
(* which carries the flag.                                                 *)
(***************************************************************************)
StoredWandGoals == 3
MaxWandAdds == 1

\* StoredWandGoals goals, the last of them without a title and flagged
WandStored ==
    LET st == StoredGoals(StoredWandGoals, 0)
    IN  [st EXCEPT !.goals =
            setGoalsUpdater(@, StoredWandGoals,
                [NoUpdates EXCEPT !.title = Some(""),
                                  !.isMagicWand = Some(TRUE)])]

InitMagicWand ==
    /\ savings = <<>>
    /\ targets = <<>>
    /\ currency = "NTD"
    /\ now = 0
    /\ incomes = <<>>
    /\ fixedExpenses = <<>>
    /\ showPredictions = FALSE
    /\ selectedPeriod = NoPeriod
    /\ tzOffset = 0
    /\ goals = WandStored.goals
    /\ expenses = WandStored.expenses

ToggleMagicWandStep == \E id \in IdsOf(goals) : HandleToggleMagicWand(id)

AddWandGoalStep ==
    /\ Len(goals) < StoredWandGoals + MaxWandAdds
    /\ \E title \in ModelGoalTitles : HandleAddGoal(title, Undefined)

SetAnyGoalCompletedStep ==
    \E id \in IdsOf(goals), checked \in BOOLEAN : SetGoalCompleted(id, checked)

DeleteAnyGoalStep == \E id \in IdsOf(goals) : DeleteGoal(id)

NextMagicWand ==
    \/ ToggleMagicWandStep
    \/ AddWandGoalStep
    \/ SetAnyGoalCompletedStep
    \/ DeleteAnyGoalStep

SpecMagicWand == InitMagicWand /\ [][NextMagicWand]_vars

\* the ids of the goals with isMagicWand = true
MagicWandIds(gs) == {gs[k].id : k \in {j \in 1..Len(gs) : gs[j].isMagicWand}}

\* gs with exactly the flags of the goals in ids set, nothing else changed
WithFlags(gs, ids) ==
    [k \in 1..Len(gs) |-> [gs[k] EXCEPT !.isMagicWand = (gs[k].id \in ids)]]

\* C14: at most one goal has isMagicWand = true; toggling the flagged goal
\* clears the flag, and toggling another goal sets its flag and clears the
\* flag of every other goal, goals without a title included; nothing else
\* of the goals and nothing of the expenses changes.
C14_SingleTopPriority ==
    /\ Cardinality(MagicWandIds(goals)) <= 1
    /\ \A id \in IdsOf(TitledGoals(goals)) :
          LET r == handleToggleMagicWand(goals, expenses, id, now)
          IN  /\ r.expenses = expenses
              /\ r.goals = WithFlags(goals, IF id \in MagicWandIds(goals)
                                            THEN {} ELSE {id})

\* a toggle has moved the flag from the goal without a title to a goal with
\* a title
C14_Witness ==
    /\ \E k \in 1..Len(goals) : goals[k].title = "" /\ ~goals[k].isMagicWand
    /\ \E k \in 1..Len(goals) : goals[k].title # "" /\ goals[k].isMagicWand


(***************************************************************************)
(* Tasks and dreams of a goal: the task lists are edited through           *)
(* updateGoal(id, {preTasks | postTasks | postDreams: newList}), the new   *)
(* list being the current one with a task appended, changed or removed.    *)
(***************************************************************************)
MaxTaskGoals == 2
MaxTasksPerList == 1
MaxTasks == 2
MaxUnlinked == 1
TaskKinds == {"preTasks", "postTasks", "postDreams"}
ModelCosts == {Num(1), Num(2)}

\* the ids of the tasks and dreams of all goals
AllTaskIds(gs) ==
    UNION {IdsOf(gs[k].preTasks) \cup IdsOf(gs[k].postTasks)
             \cup IdsOf(gs[k].postDreams) : k \in 1..Len(gs)}

\* the goal with the id (the id is one of gs)
GoalOf(gs, id) == SelectSeq(gs, LAMBDA g : g.id = id)[1]

\* s without its k-th element
RemoveAt(s, k) == [j \in 1..(Len(s) - 1) |-> IF j < k THEN s[j] ELSE s[j + 1]]

\* updateGoal(id, {[kind]: newList})
UpdateTaskList(id, kind, newList) ==
    /\ LET r == updateGoal(goals, [goals |-> goals, expenses |-> expenses], id,
                           [NoUpdates EXCEPT ![kind] = Some(newList)], now)
       IN  goals' = r.goals /\ expenses' = r.expenses
    /\ GoalUnchanged

\* a task with a fresh id is appended to a list of the goal
AddTask(id, kind, cost, deadline) ==
    /\ id \in IdsOf(goals)
    /\ Len(GoalOf(goals, id)[kind]) < MaxTasksPerList
    /\ Cardinality(AllTaskIds(goals)) < MaxTasks
    /\ UpdateTaskList(id, kind,
           Append(GoalOf(goals, id)[kind],
                  [id |-> RandomUUID(AllTaskIds(goals)), cost |-> cost,
                   deadline |-> deadline, linkedExpenseId |-> Undefined]))

\* the cost of the k-th task of a list is changed
EditTask(id, kind, k, cost) ==
    /\ id \in IdsOf(goals)
    /\ k \in 1..Len(GoalOf(goals, id)[kind])
    /\ GoalOf(goals, id)[kind][k].cost # cost
    /\ UpdateTaskList(id, kind,
           [GoalOf(goals, id)[kind] EXCEPT ![k].cost = cost])

\* the k-th task of a list is removed
RemoveTask(id, kind, k) ==
    /\ id \in IdsOf(goals)
    /\ k \in 1..Len(GoalOf(goals, id)[kind])
    /\ UpdateTaskList(id, kind, RemoveAt(GoalOf(goals, id)[kind], k))

InitGoalTasks == InitCommon /\ currency = "NTD"

AddTaskGoalStep ==
    /\ Len(goals) < MaxTaskGoals
    /\ HandleAddGoal("a", Undefined)

AddUnlinkedExpenseStep ==
    /\ Len(SelectSeq(expenses, LAMBDA e : e.linkedGoalId = Undefined))
          < MaxUnlinked
    /\ \E ic \in ModelInputCurrencies : ExpenseFormSubmit(ISODate(now), 1, ic)

AddTaskStep ==
    \E id \in 1..MaxTaskGoals, kind \in TaskKinds, cost \in ModelCosts :
        AddTask(id, kind, cost, Undefined)

EditTaskStep ==
    \E id \in 1..MaxTaskGoals, kind \in TaskKinds, k \in 1..MaxTasksPerList,
       cost \in ModelCosts : EditTask(id, kind, k, cost)

RemoveTaskStep ==
    \E id \in 1..MaxTaskGoals, kind \in TaskKinds, k \in 1..MaxTasksPerList :
        RemoveTask(id, kind, k)

NextGoalTasks ==
    \/ AddTaskGoalStep
    \/ AddUnlinkedExpenseStep
    \/ AddTaskStep
    \/ EditTaskStep
    \/ RemoveTaskStep
    \/ DeleteAnyGoalStep

SpecGoalTasks == InitGoalTasks /\ [][NextGoalTasks]_vars

\* the expenses that are not linked to goal g, in their order
NotLinkedTo(exps, g) == SelectSeq(exps, LAMBDA e : e.linkedGoalId # Some(g))

\* C15: deleteGoal(g) leaves exactly the expenses that are not linked to g,
\* unchanged and in their order, so no expense with linkedGoalId = g remains;
\* and removing one task or dream through updateGoal removes exactly the one
\* expense linked to it.
C15_CascadeDelete ==
    \A g \in IdsOf(goals) :
        /\ deleteGoal(goals, expenses, g).expenses = NotLinkedTo(expenses, g)
        /\ \A kind \in TaskKinds : \A k \in 1..Len(GoalOf(goals, g)[kind]) :
              LET task == GoalOf(goals, g)[kind][k]
                  r == updateGoal(goals,
                           [goals |-> goals, expenses |-> expenses], g,
                           [NoUpdates EXCEPT ![kind] =
                               Some(RemoveAt(GoalOf(goals, g)[kind], k))], now)
              IN  /\ r.expenses = SelectSeq(expenses, LAMBDA e :
                                      ~(/\ e.linkedGoalId = Some(g)
                                        /\ e.linkedTaskId = Some(task.id)))
                  /\ Len(r.expenses) = Len(expenses) - 1

\* goal 1 is gone and goal 2 is left with a task whose expense was created
\* when at least four other expenses existed, of which at most two are left
C15_Witness ==
    /\ IdsOf(goals) = {2}
    /\ Len(expenses) <= 3
    /\ \E k \in 1..Len(expenses) :
          /\ expenses[k].linkedGoalId = Some(2)
          /\ expenses[k].linkedTaskId # Undefined
          /\ expenses[k].id >= 5
    /\ \E k \in 1..Len(expenses) : expenses[k].linkedGoalId = Undefined


(***************************************************************************)
(* Currency round trip (use-currency).                                     *)
(***************************************************************************)
\* y differs from x by less than a millionth of x, in either direction
\* (double rounding is below 10^-15 of x)
RoundingOnly(y, x) ==
    LET diff == RSub(y, x)
        absDiff == IF RPos(diff) THEN diff ELSE RNeg(diff)
        absX == IF RPos(x) THEN x ELSE RNeg(x)
    IN  ~RPos(RSub(RMul(absDiff, Num(10 ^ 6)), absX))

\* C16: for every currency c and every stored amount x, converting x from the
\* base to c and back, and from c to the base and back, gives x up to
\* floating-point rounding (the two fixed rates of c multiply to 1).
C16_CurrencyRoundTrip ==
    \A c \in Currencies : \A k \in 1..Len(savings) :
        LET x == savings[k].amount
        IN  /\ RoundingOnly(convertToNTD(convertFromNTD(x, c), c), x)
            /\ RoundingOnly(convertFromNTD(convertToNTD(x, c), c), x)


(***************************************************************************)
(* Savings balance in the three views.                                     *)
(***************************************************************************)
\* latestSavings of the totals bar
latestSavings(periodFilteredSavings) ==
    IF Len(periodFilteredSavings) > 0
    THEN SortByDateDesc(periodFilteredSavings)[1].amount
    ELSE Num(0)

\* the dates of the records of the list
DatesOf(list) == {list[k].date : k \in 1..Len(list)}

\* the record of the date that was created last: addSaving puts a new record
\* in front of the list
MostRecentOn(savs, date) == OnDate(savs, date)[1]

\* C18: for every date with Saving records, the trend chart's value of the
\* date, the savingsBalance of the month bucket (when the date is the latest
\* of its month) and the latest savings of the totals bar (when the date is
\* the latest of all) are the amount of the most recently created record of
\* that date.
C18_SameDateTieBreak ==
    \A date \in DatesOf(savings) :
        LET amount == MostRecentOn(savings, date).amount
            month == MonthOfDate(date)
        IN  /\ SavingsByDate(savings, date) = Some(amount)
            /\ (\A d \in DatesOf(InMonth(savings, month)) : d <= date) =>
                  monthBucket(month, expenses, incomes, savings, Num(0),
                              currentMonthAt(now)).savingsBalance = Some(amount)
            /\ (\A d \in DatesOf(savings) : d <= date) =>
                  latestSavings(periodFiltered(savings, selectedPeriod)) = amount

\* the savings-balance records (savingType = balance) of a month
BalancesIn(savs, month) ==
    SelectSeq(InMonth(savs, month), LAMBDA sav : sav.savingType = "balance")

\* C19: the savingsBalance of every month bucket is the amount of a
\* maximum-dated record with savingType = balance of that month, and null
\* when the month has no such record; goal-type Savings are not reported.
C19_LatestValueAggregation ==
    \A out \in {Summary} : \A k \in 1..Len(out) :
        ~out[k].isPrediction =>
            LET balances == BalancesIn(SummarySavings, out[k].month)
            IN  IF balances = <<>> THEN out[k].savingsBalance = Undefined
                ELSE \E j \in 1..Len(balances) :
                        /\ \A i \in 1..Len(balances) :
                              balances[i].date <= balances[j].date
                        /\ out[k].savingsBalance = Some(balances[j].amount)


(***************************************************************************)
(* SankeyFlowChart: the two category levels of sankeyData.  A node is      *)
(* [id, value], a link [source, target, value]; the id `prefix-${category}`*)
(* is the pair <<prefix, category>>.  NaN is the number 0/0.               *)
(***************************************************************************)
ExpenseCategories == {"food", "lifestyle", "family", "misc"}
FixedExpenseCategories ==
    {"housing", "utilities", "transportation", "health",
     "financial-obligations", "taxes"}

\* the keys of EXPENSE_CATEGORIES and of FIXED_EXPENSE_CATEGORIES
EXPENSE_CATEGORIES == ExpenseCategories
FIXED_EXPENSE_CATEGORIES == FixedExpenseCategories

NaN == [n |-> 0, d |-> 0]

\* the initial categoryTotals of the two levels, in key order
OneTimeCategoryTotals ==
    <<[category |-> "food", total |-> Num(0)],
      [category |-> "lifestyle", total |-> Num(0)],
      [category |-> "family", total |-> Num(0)],
      [category |-> "miscellaneous", total |-> Num(0)]>>

FixedCategoryTotals ==
    <<[category |-> "housing", total |-> Num(0)],
      [category |-> "utilities", total |-> Num(0)],
      [category |-> "transportation", total |-> Num(0)],
      [category |-> "health", total |-> Num(0)],
      [category |-> "financial-obligations", total |-> Num(0)],
      [category |-> "taxes", total |-> Num(0)]>>

\* categoryTotals[category] += amount: a key that is missing reads undefined,
\* undefined + amount is NaN, and the assignment adds the key at the end
PlusAssign(categoryTotals, category, amount) ==
    IF \E k \in 1..Len(categoryTotals) : categoryTotals[k].category = category
    THEN [k \in 1..Len(categoryTotals) |->
            IF categoryTotals[k].category = category
            THEN [categoryTotals[k] EXCEPT
                    !.total = IF @ = NaN THEN NaN ELSE RAdd(@, amount)]
            ELSE categoryTotals[k]]
    ELSE Append(categoryTotals, [category |-> category, total |-> NaN])

\* list.forEach((expense) => { categoryTotals[expense.category || fallback]
\*                             += expense.amount })
RECURSIVE ForEachExpense(_, _, _)
ForEachExpense(categoryTotals, list, fallback) ==
    IF list = <<>> THEN categoryTotals
    ELSE ForEachExpense(
             PlusAssign(categoryTotals,
                        IF Head(list).category = "" THEN fallback
                        ELSE Head(list).category,
                        Head(list).amount),
             Tail(list), fallback)

\* Object.entries(categoryTotals).forEach: a node and a link for every total
\* > 0 (false for NaN); meta.label of a category without metadata throws
RECURSIVE ForEachEntry(_, _, _, _, _)
ForEachEntry(data, entries, metadata, root, prefix) ==
    IF entries = <<>> \/ data.threw THEN data
    ELSE LET category == Head(entries).category
             total == Head(entries).total
             next ==
               IF ~RPos(total) THEN data
               ELSE IF category \notin metadata
               THEN [data EXCEPT !.threw = TRUE]
               ELSE [threw |-> FALSE,
                     nodes |-> Append(data.nodes,
                                 [id |-> <<prefix, category>>, value |-> total]),
                     links |-> Append(data.links,
                                 [source |-> <<root>>,
                                  target |-> <<prefix, category>>,
                                  value |-> total])]
         IN  ForEachEntry(next, Tail(entries), metadata, root, prefix)

\* fixedExpenseTotal
fixedExpenseTotalOf(fixed) ==
    SumOf(AmountsOf(SelectSeq(fixed, LAMBDA f : f.isActive)))

\* sankeyData at the levels "onetime-expense-categories" and
\* "fixed-expense-categories"
sankeyData(drillDownLevel, exps, fixed) ==
    IF drillDownLevel = "onetime-expense-categories"
    THEN ForEachEntry(
             [threw |-> FALSE,
              nodes |-> <<[id |-> <<"onetime-expenses">>,
                           value |-> SumOf(AmountsOf(exps))]>>,
              links |-> <<>>],
             ForEachExpense(OneTimeCategoryTotals, exps, "miscellaneous"),
             EXPENSE_CATEGORIES, "onetime-expenses", "onetime-cat")
    ELSE ForEachEntry(
             [threw |-> FALSE,
              nodes |-> <<[id |-> <<"fixed-expenses">>,
                           value |-> fixedExpenseTotalOf(fixed)]>>,
              links |-> <<>>],
             ForEachExpense(FixedCategoryTotals,
                            SelectSeq(fixed, LAMBDA f : f.isActive), "housing"),
             FIXED_EXPENSE_CATEGORIES, "fixed-expenses", "fixed-cat")

(***************************************************************************)
(* Sankey category levels: specification and properties                    *)
(***************************************************************************)
MaxSankeyExpenses == 2
MaxSankeyFixed == 2
SankeyAmounts == {1, 2}

AddCategorizedExpenseStep ==
    /\ Len(expenses) < MaxSankeyExpenses
    /\ \E a \in SankeyAmounts, ic \in ModelInputCurrencies,
          category \in ExpenseCategories :
          ExpenseFormSubmitIn(ISODate(now), a, ic, category)

AddCategorizedFixedExpenseStep ==
    /\ Len(fixedExpenses) < MaxSankeyFixed
    /\ \E a \in SankeyAmounts, ic \in ModelInputCurrencies,
          category \in FixedExpenseCategories :
          FixedExpenseFormSubmitIn(a, "monthly", ic, category)

NextSankey ==
    \/ AddCategorizedExpenseStep
    \/ DeleteExpenseStep
    \/ AddCategorizedFixedExpenseStep
    \/ SetFixedExpenseActiveStep
    \/ DeleteFixedExpenseStep

SpecSankey == Init /\ [][NextSankey]_vars

\* the records of the list with the category
InCategory(list, category) ==
    SelectSeq(list, LAMBDA rec : rec.category = category)

\* the nodes after the first one, which is the node of the whole level
CategoryNodes(data) == SubSeq(data.nodes, 2, Len(data.nodes))

\* the level is built, it has a node of a category exactly when the records
\* of the category have a positive sum, each node carries that sum, and the
\* category nodes add up to the total of the records
Decomposes(data, list, categories, prefix) ==
    /\ ~data.threw
    /\ \A k \in 1..Len(list) : list[k].category \in categories
    /\ \A category \in categories :
          LET sum == SumOf(AmountsOf(InCategory(list, category)))
              found == SelectSeq(CategoryNodes(data),
                           LAMBDA node : node.id = <<prefix, category>>)
          IN  IF RPos(sum) THEN found = <<[id |-> <<prefix, category>>,
                                           value |-> sum]>>
              ELSE found = <<>>
    /\ \A node \in {CategoryNodes(data)[k] : k \in 1..Len(CategoryNodes(data))} :
          node.id[2] \in categories
    /\ SumOf([k \in 1..Len(CategoryNodes(data)) |->
                 CategoryNodes(data)[k].value]) = SumOf(AmountsOf(list))

\* the fixed-expense half of C20
FixedLevelDecomposes ==
    Decomposes(sankeyData("fixed-expense-categories", expenses, fixedExpenses),
               SelectSeq(fixedExpenses, LAMBDA f : f.isActive),
               FixedExpenseCategories, "fixed-cat")

\* C20: at the one-time-expense category level every expense is counted in
\* the node of its category, a node is emitted exactly for the categories
\* with a positive sum and carries that sum, the node values add up to the
\* one-time-expense total and building the level does not fail; the same
\* for the active fixed expenses by FixedExpenseCategory.
C20_CategoryDecomposition ==
    /\ Decomposes(sankeyData("onetime-expense-categories", expenses,
                             fixedExpenses),
                  expenses, ExpenseCategories, "onetime-cat")
    /\ FixedLevelDecomposes


(***************************************************************************)
(* Determinism of the derived views.                                       *)
(***************************************************************************)
\* the monthly summary, the trend chart and the two category levels of the
\* flow decomposition, evaluated on the lists of the state at time t
ViewsAt(t) ==
    LET fixedExpensesMonthly == fixedExpensesMonthlyOf(fixedExpenses)
        currentMonth == currentMonthAt(t)
        averages == historicalAverages(SummaryExpenses, SummaryIncomes,
                                       SummarySavings, currentMonth)
    IN  [summary |-> monthlyData(SummaryExpenses, SummaryIncomes,
                                 SummarySavings, fixedExpensesMonthly,
                                 currentMonth,
                                 predictionMonths(showPredictions, averages,
                                                  fixedExpensesMonthly, t,
                                                  tzOffset)),
         chart |-> chartData(periodFiltered(expenses, selectedPeriod),
                             periodFiltered(incomes, selectedPeriod),
                             periodFiltered(savings, selectedPeriod), t,
                             tzOffset),
         flow |-> <<sankeyData("onetime-expense-categories", expenses,
                               fixedExpenses),
                    sankeyData("fixed-expense-categories", expenses,
                               fixedExpenses)>>]

\* C17: the monthly summary, the trend projection and the flow decomposition
\* depend only on the record lists: evaluated on the lists of the state now
\* and a day earlier in the session, they give equal outputs (the lists
\* themselves are values, which no evaluation changes).
C17_DeterminismAndPurity ==
    now >= 24 => \A later \in {ViewsAt(now)} : ViewsAt(now - 24) = later


(***************************************************************************)
(* Trend chart: historical and future-dated expenses                       *)
(***************************************************************************)
\* the dated points of a chart
DatedPoints(chart) == SelectSeq(chart.data, LAMBDA pt : ~pt.projected)

\* the cumulative bases that keep the two kinds apart: the total dated on or
\* before today, or the total dated after today
UnmergedBases(list, today) ==
    LET historical == TotalUpTo(list, today)
        future == RSub(TotalOf(list), historical)
    IN  IF future = Num(0) THEN {historical}
        ELSE IF historical = Num(0) THEN {future}
        ELSE {historical, future}

\* C21: every dated point has exactly one of expenseCumulative and
\* futureExpense set, the first iff its date is on or before today; the
\* historical value sums the amounts dated up to the point, the future value
\* the amounts dated after today up to the point, and the 30-day projection
\* starts from a base that does not add amounts dated on or before today to
\* amounts dated after today.
C21_HistoricalVersusFuture ==
    \A chart \in {Chart} :
        LET today == ISODate(now)
            points == DatedPoints(chart)
        IN  /\ \A k \in 1..Len(points) :
                  IF points[k].date <= today
                  THEN /\ points[k].futureExpense = Undefined
                       /\ points[k].expenseCumulative
                             = Some(TotalUpTo(expenses, points[k].date))
                  ELSE /\ points[k].expenseCumulative = Undefined
                       /\ points[k].futureExpense
                             = Some(RSub(TotalUpTo(expenses, points[k].date),
                                         TotalUpTo(expenses, today)))
            /\ RecordCount > 0 =>
                  \E base \in UnmergedBases(expenses, today) :
                      IsRounded(chart.expenseProjection,
                                RAdd(base, RMul(DailyRate(expenses, today),
                                                Num(30))))


(***************************************************************************)
(* TimeNavigator: week windows                                             *)
(***************************************************************************)
\* the years the windows are computed for; the last one is a leap year
WeekYears == BaseYear..(BaseYear + 2)

\* C22: for every year and month getWeeksInMonth returns weeks numbered from
\* 1 such that week 1 starts on the 1st, each later week starts the day after
\* the previous one ends, every week but the last spans 7 days, the last
\* spans at most 7 days and ends on the last day of the month.
C22_WeekWindows ==
    \A year \in WeekYears, month \in 0..11 :
        \A weeks \in {getWeeksInMonth(year, month, tzOffset)} :
            LET n == Len(weeks)
                lastOfMonth == MkDate(year, month + 1,
                                      DaysInMonth(year, month + 1))
            IN  /\ n >= 1
                /\ LocalDay(weeks[1].startDate, tzOffset)
                      = MkDate(year, month + 1, 1)
                /\ \A k \in 1..n :
                      /\ weeks[k].week = k
                      /\ weeks[k].startDate <= weeks[k].endDate
                      /\ weeks[k].endDate - weeks[k].startDate <= 6 * 24
                /\ \A k \in 1..(n - 1) :
                      /\ weeks[k].endDate - weeks[k].startDate = 6 * 24
                      /\ weeks[k + 1].startDate = weeks[k].endDate + 24
                /\ LocalDay(weeks[n].endDate, tzOffset) = lastOfMonth

\* the week selected is a fifth, shorter week that getWeeksInMonth returned
C22_Witness ==
    /\ selectedPeriod.type = "week"
    /\ selectedPeriod.week = Some(5)
    /\ selectedPeriod.endDate - selectedPeriod.startDate < 6 * 24
    /\ \E weeks \in {getWeeksInMonth(selectedPeriod.year,
                                     selectedPeriod.month[1] - 1, tzOffset)} :
          /\ Len(weeks) = 5
          /\ weeks[5].startDate = selectedPeriod.startDate
          /\ weeks[5].endDate = selectedPeriod.endDate


(***************************************************************************)
(* Monthly summary: the fixed expenses figure                              *)
(***************************************************************************)
MaxSummaryFixed == 2

\* the amounts typed into the fixed expense form
EquivalentAmounts == {100, 1200}

InitFixedSummary == InitSummary

AddFirstIncomeStep == incomes = <<>> /\ AddIncomeStep

AddEquivalentFixedStep ==
    /\ Len(fixedExpenses) < MaxSummaryFixed
    /\ \E a \in EquivalentAmounts, f \in Frequencies :
          FixedExpenseFormSubmit(a, f, "NTD")

NextFixedSummary ==
    \/ AddFirstIncomeStep
    \/ DeleteIncomeStep
    \/ AddEquivalentFixedStep
    \/ SetFixedExpenseActiveStep
    \/ DeleteFixedExpenseStep
    \/ SetShowPredictionsStep

SpecFixedSummary == InitFixedSummary /\ [][NextFixedSummary]_vars

\* 1200 times the monthly equivalent of one unit of a frequency
TwelveHundredths(frequency) ==
    CASE frequency = "weekly" -> 5196
      [] frequency = "monthly" -> 1200
      [] frequency = "quarterly" -> 400
      [] frequency = "yearly" -> 100

\* 1200 times the sum of the monthly equivalents of the active records
RECURSIVE ActiveWeighted(_)
ActiveWeighted(fixed) ==
    IF fixed = <<>> THEN Num(0)
    ELSE RAdd(IF Head(fixed).isActive
              THEN RMul(Head(fixed).amount,
                        Num(TwelveHundredths(Head(fixed).frequency)))
              ELSE Num(0),
              ActiveWeighted(Tail(fixed)))

WithActive(fixed, i, checked) ==
    [fixed EXCEPT ![i] = [fixed[i] EXCEPT !.isActive = checked]]

\* C23: the fixed figure of every bucket of the monthly summary is the sum,
\* over the active fixed expenses only, of amount x 4.33 (weekly), amount
\* (monthly), amount / 3 (quarterly), amount / 12 (yearly); switching one
\* record changes the figure by exactly its monthly equivalent.
C23_FixedMonthlyEquivalent ==
    \A out \in {Summary} :
        /\ \A k \in 1..Len(out) :
              RMul(out[k].fixedExpensesMonthly, Num(1200))
                  = ActiveWeighted(fixedExpenses)
        /\ \A i \in 1..Len(fixedExpenses) :
              RMul(RSub(fixedExpensesMonthlyOf(WithActive(fixedExpenses, i, TRUE)),
                        fixedExpensesMonthlyOf(WithActive(fixedExpenses, i, FALSE))),
                   Num(1200))
                  = RMul(fixedExpenses[i].amount,
                         Num(TwelveHundredths(fixedExpenses[i].frequency)))

\* 100 weekly is active, 1200 yearly was switched off, and the summary
\* shows 433
C23_Witness ==
    /\ Len(fixedExpenses) = 2
    /\ \E i, j \in 1..2 :
          /\ fixedExpenses[i].isActive
          /\ fixedExpenses[i].amount = Num(100)
          /\ fixedExpenses[i].frequency = "weekly"
          /\ ~fixedExpenses[j].isActive
          /\ fixedExpenses[j].amount = Num(1200)
          /\ fixedExpenses[j].frequency = "yearly"
    /\ \E out \in {Summary} :
          /\ Len(out) > 1
          /\ \A k \in 1..Len(out) : out[k].fixedExpensesMonthly = Num(433)


(***************************************************************************)
(* Trend chart: savings growth and carry-forward                           *)
(***************************************************************************)
BalanceRecords(savs) == SelectSeq(savs, LAMBDA sav : sav.savingType = "balance")

\* the whole days from date a to date b
DaysFromTo(a, b) == DayNumber(b) - DayNumber(a)

\* the growth rates the balance records allow: any record of the latest date
\* against any record of the earliest date, over the days between the dates
BalanceGrowths(savs) ==
    LET records == BalanceRecords(savs)
        dates == DatesOf(records)
        earliest == CHOOSE d \in dates : \A e \in dates : d <= e
        latest == CHOOSE d \in dates : \A e \in dates : e <= d
    IN  IF Cardinality(dates) < 2 THEN {Num(0)}
        ELSE {RDivInt(RSub(records[j].amount, records[i].amount),
                      Max(1, DaysFromTo(earliest, latest))) :
                <<i, j>> \in {p \in (1..Len(records)) \X (1..Len(records)) :
                                /\ records[p[1]].date = earliest
                                /\ records[p[2]].date = latest}}

\* C24: the average daily savings growth is (latest balance - earliest
\* balance) over the days between their dates (at least 1), from the
\* balance-type records only, and 0 unless two balance records with
\* distinct dates exist.
C24_SavingsGrowthRate ==
    \A chart \in {Chart} :
        (expenses # <<>> \/ incomes # <<>> \/ savings # <<>>) =>
            chart.avgDailySavingsGrowth
                \in BalanceGrowths(periodFiltered(savings, selectedPeriod))


MaxCarryDays == 3
MaxCarrySavings == 2
MaxCarryExpenses == 2

\* the days a date field is set to in the carry-forward specification
CarryDays == {DateOfDayNumber(BaseYear, k) : k \in 0..MaxCarryDays}

AddCarrySavingStep ==
    /\ Len(savings) < MaxCarrySavings
    /\ \E date \in CarryDays, a \in AmountInputs, st \in SavingTypes :
          SavingFormSubmit(date, a, "NTD", st)

AddCarryExpenseStep ==
    /\ Len(expenses) < MaxCarryExpenses
    /\ \E date \in CarryDays : ExpenseFormSubmit(date, 1, "NTD")

NextCarry ==
    \/ AddCarrySavingStep
    \/ DeleteSavingStep
    \/ AddCarryExpenseStep
    \/ DeleteExpenseStep

SpecCarry == Init /\ [][NextCarry]_vars

\* the amounts of the records of savs dated date
AmountsOn(savs, date) ==
    {Some(OnDate(savs, date)[k].amount) : k \in 1..Len(OnDate(savs, date))}

\* C25: on the dated points of the chart, in ascending order of date, a date
\* with a savings record shows the amount of a record of that date (also
\* when it is 0), a date without one shows the amount of the most recent
\* earlier date that has a record, and a date before the first savings
\* record shows null.
C25_CarryForwardFill ==
    \A chart \in {Chart} :
        LET savs == periodFiltered(savings, selectedPeriod)
            points == DatedPoints(chart)
            earlier(date) == {d \in DatesOf(savs) : d < date}
            latestBefore(date) ==
                CHOOSE d \in earlier(date) : \A e \in earlier(date) : e <= d
        IN  /\ \A k \in 1..(Len(points) - 1) : points[k].date < points[k + 1].date
            /\ \A k \in 1..Len(points) :
                  LET date == points[k].date
                  IN  IF date \in DatesOf(savs)
                      THEN points[k].savings \in AmountsOn(savs, date)
                      ELSE IF earlier(date) # {}
                      THEN points[k].savings
                              \in AmountsOn(savs, latestBefore(date))
                      ELSE points[k].savings = Undefined

\* the first date has an expense only and shows null, the next two have
\* savings records of 1 and of 0, and the last has an expense only and shows
\* the 0 of the date before it
C25_Witness ==
    \E chart \in {Chart} :
        LET points == DatedPoints(chart)
        IN  /\ Len(points) = 4
            /\ DatesOf(savings) = {points[2].date, points[3].date}
            /\ points[1].savings = Undefined
            /\ points[2].savings = Some(Num(1))
            /\ points[3].savings = Some(Num(0))
            /\ points[4].savings = Some(Num(0))


(***************************************************************************)
(* SankeyFlowChart: the overview level of sankeyData                       *)
(***************************************************************************)
\* a <= b on numbers
RLeq(a, b) == a.n * b.d <= b.n * a.d

\* Math.min(a, b)
MathMin(a, b) == IF RLeq(a, b) THEN a ELSE b

\* totalSavings with the goal-type Savings counted too
totalSavingsOf_AllTypes(savs) == SumOf(AmountsOf(savs))

\* totalSavings
totalSavingsOf(savs) == SumOf(AmountsOf(BalanceRecords(savs)))

\* goalExpenseTotal
goalExpenseTotalOf(exps, gs) ==
    SumOf(AmountsOf(SelectSeq(exps,
        LAMBDA e : \E k \in 1..Len(gs) : gs[k].linkedExpenseId = Some(e.id))))

\* sankeyData at the level "overview"
sankeyOverview(exps, incs, savs, gs) ==
    LET totalIncome == SumOf(AmountsOf(incs))
        totalSavings == totalSavingsOf(savs)
        totalExpenses == SumOf(AmountsOf(exps))
        activeGoals == ActiveGoals(gs)
        goalExpenseTotal == goalExpenseTotalOf(exps, gs)
        savingsFlow == MathMin(totalSavings, RMul(totalIncome, Rat(3, 10)))
        expenseFlow == RSub(totalIncome, savingsFlow)
        goalsFlow == MathMin(RMul(totalSavings, Rat(4, 10)),
                             Num(Len(activeGoals) * 1000))
    IN  [nodes |-> <<[id |-> "income", value |-> totalIncome],
                     [id |-> "savings", value |-> totalSavings],
                     [id |-> "goals", value |-> Num(Len(activeGoals) * 1000)],
                     [id |-> "expenses", value |-> totalExpenses]>>,
         links |->
             (IF RPos(totalIncome)
              THEN <<[source |-> "income", target |-> "savings",
                      value |-> savingsFlow],
                     [source |-> "income", target |-> "expenses",
                      value |-> expenseFlow]>>
              ELSE <<>>)
             \o (IF RPos(totalSavings) /\ Len(activeGoals) > 0
                 THEN <<[source |-> "savings", target |-> "goals",
                         value |-> goalsFlow]>>
                 ELSE <<>>)
             \o (IF RPos(goalExpenseTotal)
                 THEN <<[source |-> "goals", target |-> "expenses",
                         value |-> goalExpenseTotal]>>
                 ELSE <<>>)]

\* what SankeyFlowChart computes at the overview level in the current state
SankeyOverview ==
    sankeyOverview(periodFiltered(expenses, selectedPeriod),
                   periodFiltered(incomes, selectedPeriod),
                   periodFiltered(savings, selectedPeriod), goals)



MaxOverviewIncomes == 2
MaxOverviewGoals == 2

\* amounts typed into the income and the savings form
OverviewIncomeAmounts == {1000, 10000}
OverviewSavingAmounts == {2000, 5000}

AddOverviewIncomeStep ==
    /\ Len(incomes) < MaxOverviewIncomes
    /\ \E a \in OverviewIncomeAmounts : IncomeFormSubmit(ISODate(now), a)

AddOverviewSavingStep ==
    \E a \in OverviewSavingAmounts, st \in SavingTypes :
        SavingFormSubmit(ISODate(now), a, "NTD", st)

AddOverviewGoalStep ==
    /\ Len(goals) < MaxOverviewGoals
    /\ HandleAddGoal("a", Undefined)

NextOverview ==
    \/ AddOverviewIncomeStep
    \/ DeleteIncomeStep
    \/ AddOverviewSavingStep
    \/ DeleteSavingStep
    \/ AddOverviewGoalStep
    \/ SetAnyGoalCompletedStep

SpecOverview == Init /\ [][NextOverview]_vars

\* the values of the links of data from source to target
EdgeValues(data, source, target) ==
    [k \in 1..Len(SelectSeq(data.links,
                            LAMBDA l : l.source = source /\ l.target = target))
        |-> SelectSeq(data.links,
                      LAMBDA l : l.source = source /\ l.target = target)[k].value]

\* v is the smaller of a and b
IsMinOf(v, a, b) == v \in {a, b} /\ RLeq(v, a) /\ RLeq(v, b)

\* C26: with total income > 0 the income-to-savings edge is min(total of the
\* balance-type savings, 30% of total income) and the income-to-expenses
\* edge is total income minus it, so the two add up to total income; with
\* total income 0 no edge leaves income; the savings-to-goals edge is
\* min(40% of savings, 1000 x active goals) and exists only when savings > 0
\* and a goal is active.
C26_OverviewFlowSplit ==
    \A data \in {SankeyOverview} :
        LET totalIncome == TotalOf(incomes)
            balance == TotalOf(BalanceRecords(savings))
            active == Cardinality({k \in 1..Len(goals) :
                                     ~goals[k].completed /\ goals[k].title # ""})
            toSavings == EdgeValues(data, "income", "savings")
            toExpenses == EdgeValues(data, "income", "expenses")
            toGoals == EdgeValues(data, "savings", "goals")
        IN  /\ RPos(totalIncome) =>
                  /\ Len(toSavings) = 1 /\ Len(toExpenses) = 1
                  /\ IsMinOf(toSavings[1], balance,
                             RDivInt(RMul(totalIncome, Num(30)), 100))
                  /\ toExpenses[1] = RSub(totalIncome, toSavings[1])
                  /\ RAdd(toSavings[1], toExpenses[1]) = totalIncome
            /\ totalIncome = Num(0) =>
                  \A k \in 1..Len(data.links) : data.links[k].source # "income"
            /\ IF RPos(balance) /\ active > 0
               THEN /\ Len(toGoals) = 1
                    /\ IsMinOf(toGoals[1], RDivInt(RMul(balance, Num(40)), 100),
                               Num(1000 * active))
               ELSE Len(toGoals) = 0

\* income 10000, balance savings 2000 beside a goal-type saving, one active
\* and one completed goal: 2000 flows to savings, 8000 to expenses, 800 to
\* goals
C26_Witness ==
    /\ TotalOf(incomes) = Num(10000)
    /\ TotalOf(BalanceRecords(savings)) = Num(2000)
    /\ Len(savings) = 2
    /\ Len(ActiveGoals(goals)) = 1 /\ Len(goals) = 2
    /\ \E data \in {SankeyOverview} :
          /\ EdgeValues(data, "income", "savings") = <<Num(2000)>>
          /\ EdgeValues(data, "income", "expenses") = <<Num(8000)>>
          /\ EdgeValues(data, "savings", "goals") = <<Num(800)>>

\* the other arms of the two minima: 30% of income 1000 and 1000 per goal
C26_WitnessCapped ==
    /\ TotalOf(incomes) = Num(1000)
    /\ TotalOf(BalanceRecords(savings)) = Num(5000)
    /\ \E data \in {SankeyOverview} :
          /\ EdgeValues(data, "income", "savings") = <<Num(300)>>
          /\ EdgeValues(data, "income", "expenses") = <<Num(700)>>
          /\ EdgeValues(data, "savings", "goals") = <<Num(1000)>>


(***************************************************************************)
(* TimeNavigator: the selection                                            *)
(***************************************************************************)
\* the periods of the tree rendered in the current state
RenderedPeriods == NavigatorPeriods(getFullYear(now, tzOffset), tzOffset)

\* period is the current selection: same type, year, quarter, month and week
IsCurrentSelection(period) ==
    /\ selectedPeriod # NoPeriod
    /\ <<period.type, period.year, period.quarter, period.month, period.week>>
          = <<selectedPeriod.type, selectedPeriod.year, selectedPeriod.quarter,
              selectedPeriod.month, selectedPeriod.week>>

\* the selection after clicking on period
AfterSelecting(period) ==
    IF IsCurrentSelection(period) THEN NoPeriod ELSE period

\* C27: selecting the current selection sets the selection to none, selecting
\* any other period sets it to exactly that period, "Clear selection" sets
\* it to none; the selection is always none or one rendered period, and
\* selecting a period that is not selected twice ends with no selection.
C27_PeriodSelection ==
    \A periods \in {RenderedPeriods} :
        /\ selectedPeriod \in {NoPeriod} \cup periods
        /\ \A period \in periods :
              /\ ENABLED HandleSelectPeriod(period)
              /\ ~ENABLED (/\ HandleSelectPeriod(period)
                           /\ selectedPeriod' # AfterSelecting(period))
              /\ ~IsCurrentSelection(period) =>
                    handleSelectPeriod(period,
                        handleSelectPeriod(period, selectedPeriod)) = NoPeriod
        /\ selectedPeriod # NoPeriod => ENABLED ClearSelection
        /\ ~ENABLED (ClearSelection /\ selectedPeriod' # NoPeriod)

\* a quarter of the tree is selected while an expense is listed
C27_Witness ==
    /\ selectedPeriod \in RenderedPeriods
    /\ selectedPeriod.type = "quarter"
    /\ expenses # <<>>


(***************************************************************************)
(* Saving writes and the target list                                       *)
(***************************************************************************)
\* the record of savings with the id
SavingWithId(id) == savings[CHOOSE k \in 1..Len(savings) : savings[k].id = id]

\* the targets of the types income and expense, in list order
OtherTargets(tgs) == SelectSeq(tgs, LAMBDA x : x.type # "savings")

\* C28: adding a balance-type saving, updating a saving whose result is
\* balance-type, and updating a goal-type saving without changing its amount
\* or its type leave the targets unchanged; no saving operation changes an
\* income or expense target.
C28_NonGoalWritesKeepTargets ==
    [][/\ \A date \in ModelDays, a \in AmountInputs, ic \in ModelInputCurrencies :
             SavingFormSubmit(date, a, ic, "balance") => targets' = targets
       /\ \A id \in IdsOf(savings) :
             /\ SetReviewCount(id) => targets' = targets
             /\ \A a \in AmountInputs :
                   /\ (SaveEdit(id, a) /\ SavingWithId(id).savingType = "balance")
                          => targets' = targets
                   /\ (/\ SaveEdit(id, a)
                       /\ SavingWithId(id).savingType = "goal"
                       /\ convertToNTD(Num(a), currency) = SavingWithId(id).amount)
                          => targets' = targets
       /\ (\/ \E date \in ModelDays, a \in AmountInputs,
                 ic \in ModelInputCurrencies, st \in SavingTypes :
                 SavingFormSubmit(date, a, ic, st)
           \/ \E id \in IdsOf(savings) :
                 \/ SetReviewCount(id)
                 \/ DeleteSaving(id)
                 \/ \E a \in AmountInputs : SaveEdit(id, a))
             => OtherTargets(targets') = OtherTargets(targets)]_vars


(***************************************************************************)
(* Monthly summary: the prediction buckets                                 *)
(***************************************************************************)
\* the calendar month i months after month
MonthAfter(month, i) ==
    LET index == (month \div 100) * 12 + ((month % 100) - 1) + i
    IN  (index \div 12) * 100 + (index % 12) + 1

\* C29: with predictions enabled the summary holds exactly three prediction
\* buckets, for the three calendar months that follow the current month, and
\* no month key occurs twice among the prediction and actual buckets.
C29_PredictionBuckets ==
    \A out \in {Summary} :
        LET predicted == SelectSeq(out, LAMBDA b : b.isPrediction)
        IN  /\ showPredictions =>
                  /\ Len(predicted) = 3
                  /\ {predicted[k].month : k \in 1..Len(predicted)}
                        = {MonthAfter(currentMonthAt(now), i) : i \in 1..3}
            /\ \A j, k \in 1..Len(out) : j # k => out[j].month # out[k].month


(***************************************************************************)
(* FixedExpenseForm: the frequencies of the select                         *)
(***************************************************************************)
\* the values of the SelectItems of the frequency select; setFrequency casts
\* the chosen value to Frequency
FormFrequencies ==
    {"weekly", "bi-weekly", "bi-monthly", "monthly", "quarterly", "yearly"}

AddFormFixedExpenseStep ==
    /\ Len(fixedExpenses) < MaxSummaryFixed
    /\ \E a \in EquivalentAmounts, f \in FormFrequencies :
          FixedExpenseFormSubmit(a, f, "NTD")

NextFixedForm ==
    \/ AddFirstIncomeStep
    \/ DeleteIncomeStep
    \/ AddFormFixedExpenseStep
    \/ SetFixedExpenseActiveStep
    \/ DeleteFixedExpenseStep

SpecFixedForm == InitSummary /\ [][NextFixedForm]_vars

\* C30: every fixed expense created through the form has one of the
\* frequencies weekly, monthly, quarterly, yearly, and its monthly equivalent
\* is given by the rule of that frequency, never by the default branch of
\* getMonthlyEquivalent.
C30_FormFrequenciesHandled ==
    \A k \in 1..Len(fixedExpenses) :
        /\ fixedExpenses[k].frequency \in Frequencies
        /\ RMul(getMonthlyEquivalent(fixedExpenses[k].amount,
                                     fixedExpenses[k].frequency), Num(1200))
              = RMul(fixedExpenses[k].amount,
                     Num(TwelveHundredths(fixedExpenses[k].frequency)))

====
